---- MODULE Spec2Model ----
(***************************************************************************)
(* State-machine model of config_parser.py (mise-en-place dotfiles sync):  *)
(*   - sync_from_repo: overlay resolution, classification, planning,       *)
(*     apply-with-backup, template batch                                   *)
(*   - DotfilesConfig.parse_config / validate and main's dispatch          *)
(*   - process_template_file: snapshot, substitute, commit                 *)
(* Three specifications share one set of variables; the variables a        *)
(* specification does not use keep their initial value.                    *)
(***************************************************************************)
EXTENDS Integers, Sequences, FiniteSets, TLC

VARIABLES
    \* ---- DotfilesConfig ----
    dotfiles,          \* config.dotfiles: sequence of repo paths
    file_map,          \* config.file_map: sequence of [repo_path, dest_path] (dict, insertion order)
    custom_map,        \* config.custom_map: set of [dest_path, custom_path] (dict keyed by dest_path)
    \* ---- filesystem ----
    repo,              \* content at config.repo_dir / repo_path
    custom,            \* content at config.custom_dir / custom_path
    home,              \* content at Path.home() / dest_path
    backup,            \* content at backup_dir / dest_path
    backup_root,       \* TRUE iff the backup_dir directory exists
    \* ---- sync_from_repo: arguments, locals, position ----
    preview, strategy, force, process_templates,
    pc,                \* position inside the running operation
    idx,               \* loop index of the running for-loop
    files_to_sync,     \* sequence of [repo_path, dest_path, status]
    files_identical,   \* sequence of [repo_path, dest_path]
    files_skipped,     \* sequence of repo_path keys
    files_synced,      \* sequence of [repo_path, dest_path]
    actions,           \* dict key -> action; "unset" models an absent key
    result,            \* return value of the operation (NoResult while running)
    stderr,            \* set of diagnostics printed so far
    inputs_read,       \* number of input() calls answered so far
    last_answer,       \* the most recent input() answer, <<prompt, answer>>
    views,             \* number of 'view' answers given so far
    templates_processed, \* return value of process_synced_templates
    rollback_left,     \* dest paths whose .rollback_backup file is left behind
    \* ---- parse_config and main ----
    line_num,          \* number of lines of the mapping file read so far
    raw_line,          \* the line read last, before stripping
    errors,            \* the list validate() returned, as a set
    op_run,            \* the operation main dispatched to, "none" before
    stdout,            \* set of the lines list_files printed
    \* ---- process_template_file ----
    tpl_file,          \* content of file_path
    tpl_writable,      \* TRUE iff file_path may be opened for writing
    tpl_backup,        \* content of the .template_backup file beside it
    tpl_tmp,           \* content of the .tmp output file beside it
    env_files,         \* contents of the env_files candidates, lowest precedence first
    environ,           \* os.environ: the exported variables of the process
    valid_env_files,   \* indices of the env files that passed validation
    run,               \* outcome of subprocess.run
    returned,          \* return value of process_template_file, "none" while running
    analysis,          \* return value of analyze_template_environment
    \* ---- consecutive invocations of the program ----
    op_no,             \* 1 for the first operation run on the file system, 2 for the next
    \* ---- process_synced_templates ----
    templates_found,   \* sequence of the dest paths found to hold a placeholder
    rollback_info,     \* dict dest path -> name of its .rollback_backup file
    rollback_files,    \* the .rollback_backup files on disk: name -> text
    failed_templates,  \* sequence of the dest paths whose processing failed
    reported,          \* the rollback paths printed to the operator
    \* ---- history of the run (not read by the program) ----
    attempts,          \* sequence of [dest_path, ok] of process_template_file calls
    fatal_at,          \* line number at which parse_config raised ValueError, else 0
    tpl_file0,         \* tpl_file as it was when process_template_file was called
    tpl_out,           \* the output file as it was when subprocess.run returned
    home0,             \* home as it was when the operation started
    backup_root0,      \* backup_root as it was when the operation started
    backups_written,   \* sequence of [dest_path, status, action, before] of apply-phase backup copies
    applied            \* sequence of [repo_path, dest_path, source, before] of apply-phase copies

synclocals == <<preview, strategy, force, process_templates, idx, files_to_sync,
                files_identical, files_skipped, files_synced, actions, inputs_read,
                last_answer, views, templates_processed, rollback_left, home0,
                backup_root0, backups_written, applied>>

syncvars_but_stderr == <<repo, custom, home, backup, backup_root, synclocals>>

syncvars == <<syncvars_but_stderr, stderr>>

confvars == <<dotfiles, file_map, custom_map>>

mainvars == <<line_num, raw_line, errors, op_run, fatal_at, stdout>>

tplvars == <<tpl_file, tpl_writable, tpl_backup, tpl_tmp, env_files, environ,
             valid_env_files, run, returned, analysis, tpl_file0, tpl_out>>

seqvars == <<op_no>>

batchvars == <<templates_found, rollback_info, rollback_files, failed_templates,
               attempts, reported>>

vars == <<confvars, syncvars, mainvars, tplvars, seqvars, batchvars, pc, result>>

----------------------------------------------------------------------------
(* Bounds of the sync model *)
MaxEntries == 3        \* at most this many Regular lines in the mapping file
MaxViews == 1          \* at most this many 'view' answers in one run

RepoPaths == <<"r1", "r2", "r3", "r4">>
CustomNames == {"x1"}
HomeDests == {"d1", "d2"}            \* destinations below the home directory
HomeItself == "."                    \* Path.home() / "." == Path.home()
OutsideHome == "/abs"                \* Path.home() / "/abs" == Path("/abs")
DestPaths == HomeDests \cup {HomeItself, OutsideHome}

NoResult == -1

----------------------------------------------------------------------------
(* File contents.  A path holds nothing, a regular file or a directory.    *)
(* A file is its text; a directory is the set of its members' names.       *)
NoFile == [kind |-> "none", text |-> "", members |-> {}]
File(t) == [kind |-> "file", text |-> t, members |-> {}]
Dir(m) == [kind |-> "dir", text |-> "", members |-> m]

BinTexts == {"bin"}                  \* bytes that do not decode: read_text raises
TemplateTexts == {"T"}               \* texts that contain a ${NAME} placeholder
Substituted(t) == IF t = "T" THEN "S" ELSE t

exists(c) == c.kind # "none"
is_dir(c) == c.kind = "dir"
is_file(c) == c.kind = "file"
readable(c) == is_file(c) /\ c.text \notin BinTexts

\* shutil.copy2(src, dst): dst an existing directory => the file lands inside it
copy2(src, name, dst) ==
    IF is_dir(dst) THEN Dir(dst.members \cup {name}) ELSE File(src.text)

\* shutil.copytree(src, dst) onto a path that does not exist
copytree(src) == src

----------------------------------------------------------------------------
(* sync_from_repo *)

Append1(cond, s, e) == IF cond THEN Append(s, e) ELSE s

\* f"custom:{custom_path}", repo_path.startswith("custom:") and repo_path[7:]
CustomKey(custom_path) == "custom:" \o custom_path
IsCustomKey(key) == \E x \in CustomNames : key = CustomKey(x)
CustomPathOf(key) == CHOOSE x \in CustomNames : key = CustomKey(x)

AllKeys == {RepoPaths[i] : i \in DOMAIN RepoPaths} \cup {CustomKey(x) : x \in CustomNames}

\* First pass, lines 764-775: the effective source of one mapping entry
UsesCustom(e) ==
    /\ e.dest_path \in DOMAIN custom_map
    /\ exists(custom[custom_map[e.dest_path]])
CustomMissing(e) ==
    /\ e.dest_path \in DOMAIN custom_map
    /\ ~exists(custom[custom_map[e.dest_path]])
EffectiveKey(e) ==
    IF UsesCustom(e) THEN CustomKey(custom_map[e.dest_path]) ELSE e.repo_path
EffectiveSource(e) ==
    IF UsesCustom(e) THEN custom[custom_map[e.dest_path]] ELSE repo[e.repo_path]

\* Second and third pass, lines 836-840 and 901-905: source re-determined from the key
SourceOfKey(key) ==
    IF IsCustomKey(key) THEN custom[CustomPathOf(key)] ELSE repo[key]
NameOfKey(key) ==
    IF IsCustomKey(key) THEN CustomPathOf(key) ELSE key

\* the directory test of line 798 made before the existence test of line 797
Classify_DirectoryFirst(source, dest) ==
    IF is_dir(source) \/ is_dir(dest) THEN "directory"
    ELSE IF ~exists(dest) THEN "new"
    ELSE IF readable(source) /\ readable(dest)
         THEN (IF source.text = dest.text THEN "identical" ELSE "modified")
         ELSE "binary"
\* Lines 797-815
Classify(source, dest) ==
    IF ~exists(dest) THEN "new"
    ELSE IF is_dir(source) \/ is_dir(dest) THEN "directory"
    ELSE IF readable(source) /\ readable(dest)
         THEN (IF source.text = dest.text THEN "identical" ELSE "modified")
         ELSE "binary"

Return(code) ==
    /\ result' = code
    /\ pc' = "done"

\* Lines 789-794: dest_file.relative_to(Path.home()) does not raise
IsRelativeToHome_Always(dest_path) == TRUE
IsRelativeToHome(dest_path) == dest_path \in HomeDests \cup {HomeItself}

\* Lines 741-751
Begin ==
    /\ pc = "start"
    /\ preview' = (IF force THEN FALSE ELSE preview)
    /\ backup_root' = TRUE
    /\ pc' = "analyze"
    /\ idx' = 1
    /\ UNCHANGED <<seqvars, batchvars, mainvars, tplvars, confvars, repo, custom, home, backup, strategy, force,
                   process_templates, files_to_sync, files_identical, files_skipped,
                   files_synced, actions, result, stderr, inputs_read, last_answer, views,
                   templates_processed, rollback_left, home0, backup_root0,
                   backups_written, applied>>

\* Lines 762-815: one iteration of the first pass
Analyze ==
    /\ pc = "analyze"
    /\ idx <= Len(file_map)
    /\ LET e == file_map[idx]
           key == EffectiveKey(e)
           source == EffectiveSource(e)
           warned == IF CustomMissing(e)
                     THEN stderr \cup {<<"custom_not_found", custom_map[e.dest_path]>>}
                     ELSE stderr
       IN  IF ~exists(source)
           THEN /\ stderr' = warned \cup {<<"source_not_found", key>>}
                /\ idx' = idx + 1
                /\ UNCHANGED <<pc, result, files_to_sync, files_identical>>
           ELSE IF e.dest_path = HomeItself
           THEN /\ stderr' = warned \cup {<<"refusing_home", key>>}
                /\ Return(1)
                /\ UNCHANGED <<idx, files_to_sync, files_identical>>
           ELSE IF ~IsRelativeToHome(e.dest_path)
           THEN /\ stderr' = warned \cup {<<"outside_home", key>>}
                /\ Return(1)
                /\ UNCHANGED <<idx, files_to_sync, files_identical>>
           ELSE LET status == Classify(source, home[e.dest_path])
                IN  /\ stderr' = warned
                    /\ idx' = idx + 1
                    /\ files_identical' = Append1(status = "identical", files_identical,
                                             [repo_path |-> key, dest_path |-> e.dest_path])
                    /\ files_to_sync' = Append1(status # "identical", files_to_sync,
                                             [repo_path |-> key, dest_path |-> e.dest_path,
                                              status |-> status])
                    /\ UNCHANGED <<pc, result>>
    /\ UNCHANGED <<seqvars, batchvars, mainvars, tplvars, confvars, repo, custom, home, backup, backup_root, preview, strategy,
                   force, process_templates, files_skipped, files_synced, actions,
                   inputs_read, last_answer, views, templates_processed, rollback_left, home0,
                   backup_root0, backups_written, applied>>

\* Lines 817-828 and 884-888: end of the first pass
\* Line 888: the action of every entry when there is no preview
StrategyAction_OnlyReplace(s) == IF s = "replace" THEN "replace" ELSE "keep"
StrategyAction(s) == IF s # "skip" THEN "replace" ELSE "keep"

Summary ==
    /\ pc = "analyze"
    /\ idx > Len(file_map)
    /\ IF files_to_sync = <<>>
       THEN /\ Return(0)
            /\ UNCHANGED <<idx, actions>>
       ELSE IF preview /\ ~force
       THEN /\ pc' = "preview"
            /\ idx' = 1
            /\ actions' = [k \in AllKeys |-> "unset"]
            /\ UNCHANGED result
       ELSE /\ pc' = "apply"
            /\ idx' = 1
            /\ actions' = [k \in AllKeys |->
                   IF \E i \in DOMAIN files_to_sync : files_to_sync[i].repo_path = k
                   THEN StrategyAction(strategy)
                   ELSE "unset"]
            /\ UNCHANGED result
    /\ UNCHANGED <<seqvars, batchvars, mainvars, tplvars, confvars, repo, custom, home, backup, backup_root, preview, strategy,
                   force, process_templates, files_to_sync, files_identical, files_skipped,
                   files_synced, stderr, inputs_read, last_answer, views, templates_processed,
                   rollback_left, home0, backup_root0, backups_written, applied>>

\* What one input() call of prompt_user_choice ends in: an answer, or an
\* exception ("interrupt": EOFError on a closed stdin, KeyboardInterrupt)
Choices == {"keep", "replace", "backup_replace", "view", "quit", "invalid", "interrupt"}

\* Lines 859-861: 'quit' prints "Sync cancelled." and returns 0
AfterQuit_FallsThrough == "apply"
AfterQuit == "done"

\* Lines 834-874 with prompt_user_choice (691-718): one prompt answer, or one
\* entry planned without a prompt
Preview ==
    /\ pc = "preview"
    /\ idx <= Len(files_to_sync)
    /\ LET f == files_to_sync[idx]
       IN  IF f.status = "modified" /\ strategy = "ask"
           THEN \E choice \in Choices :
                  /\ inputs_read' = inputs_read + 1
                  /\ last_answer' = <<"choice", choice>>
                  /\ IF choice \in {"view", "invalid"}
                     THEN /\ views < MaxViews
                          /\ views' = views + 1
                          /\ UNCHANGED <<pc, idx, actions, result>>
                     ELSE IF choice = "quit"
                     THEN /\ pc' = AfterQuit
                          /\ result' = (IF AfterQuit = "done" THEN 0 ELSE result)
                          /\ idx' = 1
                          /\ UNCHANGED <<actions, views>>
                     ELSE /\ actions' = [actions EXCEPT ![f.repo_path] =
                                            \* the bare except of lines 867-870
                                            IF choice = "interrupt" THEN "replace"
                                            ELSE choice]
                          /\ idx' = idx + 1
                          /\ UNCHANGED <<pc, result, views>>
           ELSE /\ actions' = [actions EXCEPT ![f.repo_path] =
                                  IF strategy = "skip" THEN "keep" ELSE "replace"]
                /\ idx' = idx + 1
                /\ UNCHANGED <<pc, result, views, inputs_read, last_answer>>
    /\ UNCHANGED <<seqvars, batchvars, mainvars, tplvars, confvars, repo, custom, home, backup, backup_root, preview, strategy,
                   force, process_templates, files_to_sync, files_identical, files_skipped,
                   files_synced, stderr, templates_processed, rollback_left, home0,
                   backup_root0, backups_written, applied>>

\* Line 881
Declined_OnlyN(confirm) == confirm = "n"
Declined(confirm) == confirm # "y"

\* Lines 876-883: the confirmation gate (only asked when strategy is 'ask')
Confirm ==
    /\ pc = "preview"
    /\ idx > Len(files_to_sync)
    /\ IF strategy = "ask"
       THEN \E confirm \in {"y", "n", "", "interrupt"} :
              /\ inputs_read' = inputs_read + 1
              /\ last_answer' = <<"confirm", confirm>>
              /\ IF confirm = "interrupt"
                 THEN \* input() raises; nothing here catches it
                      pc' = "raised" /\ UNCHANGED <<idx, result>>
                 ELSE IF Declined(confirm)
                 THEN Return(0) /\ UNCHANGED idx
                 ELSE pc' = "apply" /\ idx' = 1 /\ UNCHANGED result
       ELSE /\ pc' = "apply"
            /\ idx' = 1
            /\ UNCHANGED <<result, inputs_read, last_answer>>
    /\ UNCHANGED <<seqvars, batchvars, mainvars, tplvars, confvars, repo, custom, home, backup, backup_root, preview, strategy,
                   force, process_templates, files_to_sync, files_identical, files_skipped,
                   files_synced, actions, stderr, views, templates_processed,
                   rollback_left, home0, backup_root0, backups_written, applied>>

ActionOf(key) == IF actions[key] = "unset" THEN "keep" ELSE actions[key]

\* Line 909-910: is the destination backed up before this entry is applied
NeedsBackup(dest, action, status) ==
    /\ exists(dest)
    /\ action \in {"backup_replace", "replace"}
    /\ (action = "backup_replace" \/ (status = "modified" /\ ~force))

\* Lines 893-920: look up the action of one entry; skip it, or back the
\* destination up when asked for
ApplyBackup ==
    /\ pc = "apply"
    /\ idx <= Len(files_to_sync)
    /\ LET f == files_to_sync[idx]
           action == ActionOf(f.repo_path)
           dest == home[f.dest_path]
           backup_path == backup[f.dest_path]
       IN  IF action = "keep"
           THEN /\ files_skipped' = Append(files_skipped, f.repo_path)
                /\ idx' = idx + 1
                /\ UNCHANGED <<pc, backup, backups_written>>
           ELSE IF ~NeedsBackup(dest, action, f.status)
           THEN /\ pc' = "copy"
                /\ UNCHANGED <<idx, files_skipped, backup, backups_written>>
           ELSE IF is_dir(dest) /\ is_file(backup_path)
           THEN \* shutil.rmtree on a regular file raises NotADirectoryError
                /\ pc' = "raised"
                /\ UNCHANGED <<idx, files_skipped, backup, backups_written>>
           ELSE /\ backup' = [backup EXCEPT ![f.dest_path] =
                                 IF is_dir(dest) THEN copytree(dest)
                                 ELSE copy2(dest, f.dest_path, backup_path)]
                /\ backups_written' = Append(backups_written,
                       [dest_path |-> f.dest_path, status |-> f.status,
                        action |-> action, before |-> dest])
                /\ pc' = "copy"
                /\ UNCHANGED <<idx, files_skipped>>
    /\ UNCHANGED <<seqvars, batchvars, mainvars, tplvars, confvars, repo, custom, home, backup_root, preview, strategy, force,
                   process_templates, files_to_sync, files_identical, files_synced,
                   actions, result, stderr, inputs_read, last_answer, views, templates_processed,
                   rollback_left, home0, backup_root0, applied>>

\* Lines 922-934: copy the source of one entry over its destination
ApplyCopy ==
    /\ pc = "copy"
    /\ LET f == files_to_sync[idx]
           source == SourceOfKey(f.repo_path)
           dest == home[f.dest_path]
       IN  IF is_dir(source) /\ is_file(dest)
           THEN \* shutil.rmtree on a regular file raises NotADirectoryError
                /\ pc' = "raised"
                /\ UNCHANGED <<idx, home, files_synced, applied>>
           ELSE /\ home' = [home EXCEPT ![f.dest_path] =
                               IF is_dir(source) THEN copytree(source)
                               ELSE copy2(source, NameOfKey(f.repo_path), dest)]
                /\ files_synced' = Append(files_synced,
                       [repo_path |-> f.repo_path, dest_path |-> f.dest_path])
                /\ applied' = Append(applied,
                       [repo_path |-> f.repo_path, dest_path |-> f.dest_path,
                        source |-> source, before |-> dest])
                /\ idx' = idx + 1
                /\ pc' = "apply"
    /\ UNCHANGED <<seqvars, batchvars, mainvars, tplvars, confvars, repo, custom, backup, backup_root, preview, strategy, force,
                   process_templates, files_to_sync, files_identical, files_skipped,
                   actions, result, stderr, inputs_read, last_answer, views, templates_processed,
                   rollback_left, home0, backup_root0, backups_written>>

\* The synced entries whose destination process_synced_templates finds a
\* placeholder in (lines 574-582), one per entry of files_synced
TemplatesFound ==
    {j \in DOMAIN files_synced :
        LET c == home[files_synced[j].dest_path]
        IN  is_file(c) /\ c.text \in TemplateTexts}

\* Lines 936-949 with process_synced_templates (544-662): the template batch
\* over the applied files, then the final summary; ok are the entries whose
\* process_template_file call succeeds.  Every .rollback_backup file is
\* written here; SpecBatch has the case in which one cannot be.
Finish ==
    /\ pc = "apply"
    /\ idx > Len(files_to_sync)
    /\ IF process_templates /\ files_synced # <<>>
       THEN \E ok \in SUBSET TemplatesFound :
              LET dest(j) == files_synced[j].dest_path
                  failed == {dest(j) : j \in TemplatesFound \ ok}
                  \* rollback_info keeps the last file written for a destination
                  remembered == {j \in TemplatesFound :
                                   \A k \in TemplatesFound : dest(k) = dest(j) => k <= j}
                  removed == {j \in remembered : dest(j) \notin failed}
              IN  /\ home' = [d \in DOMAIN home |->
                                IF \E j \in ok : dest(j) = d
                                THEN File(Substituted(home[d].text)) ELSE home[d]]
                  /\ templates_processed' = Cardinality(ok)
                  /\ rollback_left' = {dest(j) : j \in TemplatesFound \ removed}
       ELSE UNCHANGED <<home, templates_processed, rollback_left>>
    /\ Return(0)
    /\ UNCHANGED <<seqvars, batchvars, mainvars, tplvars, confvars, repo, custom, backup, backup_root, preview, strategy, force,
                   process_templates, idx, files_to_sync, files_identical, files_skipped,
                   files_synced, actions, stderr, inputs_read, last_answer, views, home0,
                   backup_root0, backups_written, applied>>

----------------------------------------------------------------------------
(* Specification of one sync_from_repo call on any configuration *)

RepoContents == {NoFile, File("T"), Dir({"s"})}
CustomContents == {NoFile, File("C")}
HomeContents == {NoFile, File("A"), File("T"), File("bin"), Dir({"o"})}
SecondHomeContents == {NoFile, File("A")}
FirstDest == "d1"

MainIdle ==
    /\ line_num = 0
    /\ raw_line = <<>>
    /\ errors = {}
    /\ op_run = "none"
    /\ stdout = {}
    /\ fatal_at = 0

BatchIdle ==
    /\ templates_found = <<>>
    /\ rollback_info = <<>>
    /\ rollback_files = <<>>
    /\ failed_templates = <<>>
    /\ attempts = <<>>
    /\ reported = {}

TemplateIdle ==
    /\ tpl_file = NoFile
    /\ tpl_writable = TRUE
    /\ tpl_out = NoFile
    /\ tpl_backup = NoFile
    /\ tpl_tmp = NoFile
    /\ env_files = <<>>
    /\ environ = <<>>
    /\ valid_env_files = <<>>
    /\ run = "none"
    /\ returned = "none"
    /\ analysis = [success |-> TRUE, variables |-> {}, sources |-> <<>>]
    /\ tpl_file0 = NoFile

InitSyncWith(repo_contents, first_pc) ==
    /\ MainIdle
    /\ op_no = 1
    /\ BatchIdle
    /\ TemplateIdle
    /\ \E n \in 1..MaxEntries :
         /\ \E dests \in {ds \in [1..n -> HomeDests] : ds[1] = FirstDest} :
              file_map = [i \in 1..n |-> [repo_path |-> RepoPaths[i], dest_path |-> dests[i]]]
         /\ dotfiles = [i \in 1..n |-> RepoPaths[i]]
         /\ repo \in {r \in [{RepoPaths[i] : i \in 1..n} -> repo_contents] :
                         \A i \in 2..n : ~is_dir(r[RepoPaths[i]])}
    /\ \E S \in SUBSET HomeDests : custom_map \in [S -> CustomNames]
    /\ custom \in {c \in [CustomNames -> CustomContents] :
                      custom_map = << >> => \A x \in CustomNames : c[x] = NoFile}
    /\ home \in {h \in [HomeDests -> HomeContents] :
                    \A d \in HomeDests \ {FirstDest} : h[d] \in SecondHomeContents}
    /\ backup = [d \in HomeDests |-> NoFile]
    /\ backup_root = FALSE
    /\ preview \in BOOLEAN
    /\ force \in {f \in BOOLEAN : f => preview}
    /\ strategy \in {"ask", "replace", "skip"}
    /\ process_templates \in BOOLEAN
    /\ pc = first_pc
    /\ idx = 0
    /\ files_to_sync = <<>>
    /\ files_identical = <<>>
    /\ files_skipped = <<>>
    /\ files_synced = <<>>
    /\ actions = [k \in AllKeys |-> "unset"]
    /\ result = NoResult
    /\ stderr = {}
    /\ inputs_read = 0
    /\ last_answer = <<"none", "">>
    /\ views = 0
    /\ templates_processed = 0
    /\ rollback_left = {}
    /\ home0 = home
    /\ backup_root0 = backup_root
    /\ backups_written = <<>>
    /\ applied = <<>>

InitSync == InitSyncWith(RepoContents, "start")

NextSync ==
    \/ Begin
    \/ Analyze
    \/ Summary
    \/ Preview
    \/ Confirm
    \/ ApplyBackup
    \/ ApplyCopy
    \/ Finish

SpecSync == InitSync /\ [][NextSync]_vars

----------------------------------------------------------------------------
(* Properties of sync_from_repo *)

Last(s) == s[Len(s)]
EmptyBackup == [d \in HomeDests |-> NoFile]
Interactive == preview /\ ~force /\ strategy = "ask"
MissingSource == \E i \in DOMAIN file_map : ~exists(EffectiveSource(file_map[i]))
QuitAnswered == last_answer = <<"choice", "quit">>
ConfirmDeclined == last_answer[1] = "confirm" /\ last_answer[2] # "y"

\* C1: when the effective source of some entry is missing the run returns 1,
\* and a run returns 0 only when no entry's source was missing.
C1_MissingSourceFailsRun ==
    pc = "done" =>
        /\ (MissingSource => result = 1)
        /\ (result = 0 => ~MissingSource)

\* C2: every destination that existed before the run and was overwritten by
\* the apply phase has a backup holding its pre-run content when the run ends.
C2_OverwrittenIsBackedUp ==
    pc = "done" =>
        \A i \in DOMAIN applied :
            exists(home0[applied[i].dest_path]) =>
                backup[applied[i].dest_path] = home0[applied[i].dest_path]

\* C3: a backup copy is taken exactly for an existing destination whose action
\* is BackupReplace, or Replace with status Modified outside forced mode; it
\* holds the content from before the overwrite; none is written for a New or
\* a kept destination.
C3_BackupExactlyWhenPlanned ==
    /\ \A i \in DOMAIN backups_written :
         LET b == backups_written[i]
         IN  /\ exists(b.before)
             /\ b.status # "new"
             /\ b.action # "keep"
             /\ (b.action = "backup_replace"
                   \/ (b.action = "replace" /\ b.status = "modified" /\ ~force))
    /\ pc = "copy" =>
         LET f == files_to_sync[idx]
         IN  NeedsBackup(home[f.dest_path], ActionOf(f.repo_path), f.status)
               => /\ backups_written # <<>>
                  /\ Last(backups_written).dest_path = f.dest_path
                  /\ Last(backups_written).before = home[f.dest_path]
                  /\ backup[f.dest_path] = home[f.dest_path]

\* C4: a run that ends on the answer Quit has created, changed or removed no
\* destination and no backup file, whatever was chosen for earlier files.
C4_QuitChangesNothing ==
    (pc = "done" /\ QuitAnswered) =>
        /\ result = 0
        /\ home = home0
        /\ backup = EmptyBackup
        /\ applied = <<>>
        /\ backups_written = <<>>

C4_Witness ==
    /\ pc = "done"
    /\ QuitAnswered
    /\ \E k \in AllKeys : actions[k] \in {"replace", "backup_replace"}

\* C5 as stated: in an interactive run nothing at all on the filesystem is
\* mutated before the confirmation is answered, and an answer other than 'y'
\* leaves every destination and the backup root exactly as before the run.
C5_NoMutationBeforeConfirm ==
    (Interactive /\ (pc \in {"start", "analyze", "preview"}
                      \/ (pc = "done" /\ ConfirmDeclined)))
        => /\ home = home0
           /\ backup = EmptyBackup
           /\ backup_root = backup_root0

\* C5 amended: before the confirmation is answered 'y' no destination and no
\* backup file is created, changed or removed; the only mutation is that the
\* (empty) backup root directory is created when it was missing.
C5_NoFileMutationBeforeConfirm ==
    (Interactive /\ (pc \in {"start", "analyze", "preview"}
                      \/ (pc = "done" /\ ConfirmDeclined)))
        => /\ home = home0
           /\ backup = EmptyBackup
           /\ applied = <<>>
           /\ backups_written = <<>>
           /\ (backup_root # backup_root0 => (backup_root /\ pc # "start"))

C5_Witness ==
    /\ Interactive
    /\ pc = "done"
    /\ ConfirmDeclined
    /\ \E k \in AllKeys : actions[k] \in {"replace", "backup_replace"}
    /\ backup_root # backup_root0

\* C6: for a destination with both an Overlay and a Regular entry, the overlay
\* source is used when it exists, else the Regular source with a warning; the
\* entry is classified against that one source, and once applied the
\* destination holds exactly that source's content.
ChosenSources(d) ==
    IF exists(custom[custom_map[d]])
    THEN {custom[custom_map[d]]}
    ELSE {repo[file_map[k].repo_path] : k \in {m \in DOMAIN file_map : file_map[m].dest_path = d}}

C6_OverlayPrecedence ==
    /\ \A x \in CustomNames : <<"custom_not_found", x>> \in stderr => ~exists(custom[x])
    /\ pc \in {"preview", "apply", "copy"} =>
          \A i \in DOMAIN file_map :
              CustomMissing(file_map[i]) =>
                  <<"custom_not_found", custom_map[file_map[i].dest_path]>> \in stderr
    /\ \A j \in DOMAIN files_to_sync :
          LET f == files_to_sync[j]
          IN  f.dest_path \in DOMAIN custom_map =>
                /\ SourceOfKey(f.repo_path) \in ChosenSources(f.dest_path)
                /\ f.status = Classify(SourceOfKey(f.repo_path), home0[f.dest_path])
    /\ (pc = "apply" /\ applied # <<>>) =>
          LET a == Last(applied)
          IN  a.dest_path \in DOMAIN custom_map =>
                /\ a.source \in ChosenSources(a.dest_path)
                /\ home[a.dest_path] = a.source

----------------------------------------------------------------------------
(* DotfilesConfig.parse_config, DotfilesConfig.validate and main.          *)
(* Here a path is the sequence of its characters.                          *)

CustomPrefix == <<"c", "u", "s", "t", "o", "m", ":">>

RECURSIVE lstrip(_)
lstrip(s) == IF s # <<>> /\ Head(s) = " " THEN lstrip(Tail(s)) ELSE s
RECURSIVE rstrip(_)
rstrip(s) == IF s # <<>> /\ s[Len(s)] = " " THEN rstrip(SubSeq(s, 1, Len(s) - 1)) ELSE s
strip(s) == rstrip(lstrip(s))

startswith(s, p) == Len(s) >= Len(p) /\ SubSeq(s, 1, Len(p)) = p
HasColon(s) == \E i \in DOMAIN s : s[i] = ":"
find(s) == CHOOSE i \in DOMAIN s : s[i] = ":" /\ \A j \in 1..(i - 1) : s[j] # ":"
rfind(s) == CHOOSE i \in DOMAIN s : s[i] = ":" /\ \A j \in (i + 1)..Len(s) : s[j] # ":"
From(s, i) == SubSeq(s, i, Len(s))

\* '".." in path' (lines 108, 114): two consecutive dots anywhere in the path
HasDotDot_DestOnly(repo_path, system_path) ==
    \E i \in 1..(Len(system_path) - 1) : system_path[i] = "." /\ system_path[i + 1] = "."
DotDotIn(path) == \E i \in 1..(Len(path) - 1) : path[i] = "." /\ path[i + 1] = "."
HasDotDot(repo_path, system_path) == DotDotIn(repo_path) \/ DotDotIn(system_path)

\* Line 101
IsDangerous(system_path) == system_path = <<"/">> \/ system_path = <<"~">>

\* dict[key] = value on a dict kept as a sequence of [repo_path, dest_path]
DictSet(d, key, value) ==
    IF \E i \in DOMAIN d : d[i].repo_path = key
    THEN [i \in DOMAIN d |-> IF d[i].repo_path = key
                             THEN [repo_path |-> key, dest_path |-> value] ELSE d[i]]
    ELSE Append(d, [repo_path |-> key, dest_path |-> value])

\* Lines 58-119: what one line of the file does.  The outcome is "skip",
\* "warn" (malformed, skipped), "raise" (ValueError), "custom" or "regular";
\* repo_path is the repo path, or the custom name of a custom line.
ParseLine(raw) ==
    LET line == strip(raw)
        out(kind, r, d) == [kind |-> kind, repo_path |-> r, system_path |-> d]
    IN  IF line = <<>> \/ Head(line) = "#" THEN out("skip", <<>>, <<>>)
        ELSE IF ~HasColon(line) THEN out("warn", <<>>, <<>>)
        ELSE IF startswith(line, CustomPrefix) /\ ~HasColon(From(line, 8))
             THEN out("warn", <<>>, <<>>)
        ELSE LET is_custom == startswith(line, CustomPrefix)
                 rest == From(line, 8)
                 custom_filename == SubSeq(rest, 1, rfind(rest) - 1)
                 first == IF is_custom THEN custom_filename
                          ELSE SubSeq(line, 1, find(line) - 1)
                 second == IF is_custom THEN From(rest, rfind(rest) + 1)
                           ELSE From(line, find(line) + 1)
                 \* lines 93-94 and 107: for a custom line the name is stripped
                 \* once "custom:" is cut off again
                 repo_path == strip(first)
                 system_path == strip(second)
             IN  IF is_custom /\ strip(custom_filename) = <<>> THEN out("warn", <<>>, <<>>)
                 ELSE IF repo_path = <<>> \/ system_path = <<>> THEN out("warn", <<>>, <<>>)
                 ELSE IF IsDangerous(system_path) THEN out("raise", repo_path, system_path)
                 ELSE IF HasDotDot(repo_path, system_path)
                      THEN out("raise", repo_path, system_path)
                 ELSE out(IF is_custom THEN "custom" ELSE "regular", repo_path, system_path)

\* Lines 121-148: the errors validate() reports, given which sources exist
validate(repo_fs, custom_fs) ==
    (IF dotfiles = <<>> THEN {<<"no_dotfiles">>} ELSE {})
    \cup (IF file_map = <<>> THEN {<<"no_file_mappings">>} ELSE {})
    \cup {<<"source_not_found", dotfiles[i]>> :
             i \in {j \in DOMAIN dotfiles : ~exists(repo_fs[dotfiles[j]])}}
    \cup {<<"custom_not_found", custom_map[d]>> :
             d \in {e \in DOMAIN custom_map : ~exists(custom_fs[custom_map[e]])}}
    \cup (IF \E i, j \in DOMAIN dotfiles : i # j /\ dotfiles[i] = dotfiles[j]
          THEN {<<"duplicates">>} ELSE {})

MaxLines == 2          \* at most this many lines in the mapping file

\* The fields the lines of the mapping file are built from
FieldTexts == {<<>>, <<" ">>, <<"a">>, <<"/">>, <<"~">>, <<" ", "/">>,
               <<".", ".">>, <<"a", ".", ".">>, <<"a", ":", "b">>}
Lines ==
    {f \o <<":">> \o g : f \in FieldTexts, g \in FieldTexts}
    \cup {CustomPrefix \o f \o <<":">> \o g : f \in FieldTexts, g \in FieldTexts}
    \cup {<<>>, <<"#", "a", ":", "/">>, <<"a">>, CustomPrefix \o <<"a">>}

Operations == {"sync_from_repo", "sync_to_repo", "list", "validate_only", "export"}

\* Lines 1124-1126: main catches every exception and exits with status 1
OnException_Swallowed == "validate"
OnException == "exit"

\* Lines 53-54: the configuration file does not exist
ConfigMissing ==
    /\ pc = "parse"
    /\ line_num = 0
    /\ pc' = "raised"
    /\ stderr' = stderr \cup {<<"config_not_found">>}
    /\ UNCHANGED <<confvars, syncvars_but_stderr, tplvars, seqvars, batchvars, line_num, raw_line, errors,
                   op_run, fatal_at, stdout, result>>

\* Lines 56-119: parse_config reads one more line of the file
ReadLine ==
    /\ pc = "parse"
    /\ line_num < MaxLines
    /\ \E raw \in Lines :
         LET p == ParseLine(raw)
         IN  /\ raw_line' = raw
             /\ line_num' = line_num + 1
             /\ stderr' = (IF p.kind \in {"warn", "raise"}
                           THEN stderr \cup {<<p.kind, line_num + 1>>} ELSE stderr)
             /\ pc' = (IF p.kind = "raise" THEN "raised" ELSE pc)
             /\ fatal_at' = (IF p.kind = "raise" THEN line_num + 1 ELSE fatal_at)
             /\ custom_map' = (IF p.kind = "custom"
                               THEN [d \in DOMAIN custom_map \cup {p.system_path} |->
                                       IF d = p.system_path THEN p.repo_path ELSE custom_map[d]]
                               ELSE custom_map)
             /\ dotfiles' = (IF p.kind = "regular" THEN Append(dotfiles, p.repo_path)
                             ELSE dotfiles)
             /\ file_map' = (IF p.kind = "regular"
                             THEN DictSet(file_map, p.repo_path, p.system_path)
                             ELSE file_map)
    /\ UNCHANGED <<syncvars_but_stderr, tplvars, seqvars, batchvars, errors, op_run, stdout, result>>

\* Line 57: the end of the file is reached, parse_config returns
EndOfFile ==
    /\ pc = "parse"
    /\ pc' = "validate"
    /\ UNCHANGED <<confvars, syncvars, mainvars, tplvars, seqvars, batchvars, result>>

\* Lines 1054-1059: main validates; any error ends the process with status 1.
\* The sources found on disk are read here for the first time.
Validate ==
    /\ pc = "validate"
    /\ \E found \in SUBSET {dotfiles[i] : i \in DOMAIN dotfiles},
          cfound \in SUBSET {custom_map[d] : d \in DOMAIN custom_map} :
         /\ repo' = [r \in {dotfiles[i] : i \in DOMAIN dotfiles} |->
                        IF r \in found THEN File("T") ELSE NoFile]
         /\ custom' = [c \in {custom_map[d] : d \in DOMAIN custom_map} |->
                        IF c \in cfound THEN File("C") ELSE NoFile]
    /\ errors' = validate(repo', custom')
    /\ IF errors' # {}
       THEN Return(1)
       ELSE pc' = "dispatch" /\ UNCHANGED result
    /\ UNCHANGED <<confvars, tplvars, seqvars, batchvars, line_num, raw_line, op_run, fatal_at, stdout,
                   home, backup, backup_root, synclocals, stderr>>

\* Lines 1061-1122: main hands the configuration to the selected operation
Dispatch ==
    /\ pc = "dispatch"
    /\ \E op \in Operations :
         /\ op_run' = op
         /\ \E code \in (IF op = "sync_from_repo" THEN {0, 1} ELSE {0}) : Return(code)
    /\ UNCHANGED <<confvars, syncvars, tplvars, seqvars, batchvars, line_num, raw_line, errors, fatal_at, stdout>>

\* Lines 1124-1126
MainExcept ==
    /\ pc = "raised"
    /\ IF OnException = "exit"
       THEN Return(1)
       ELSE pc' = OnException /\ UNCHANGED result
    /\ UNCHANGED <<confvars, syncvars, mainvars, tplvars, seqvars, batchvars>>

InitParse ==
    /\ TemplateIdle
    /\ op_no = 1
    /\ BatchIdle
    /\ dotfiles = <<>>
    /\ file_map = <<>>
    /\ custom_map = <<>>
    /\ line_num = 0
    /\ raw_line = <<>>
    /\ errors = {}
    /\ op_run = "none"
    /\ stdout = {}
    /\ fatal_at = 0
    /\ repo = <<>>
    /\ custom = <<>>
    /\ home = <<>>
    /\ backup = <<>>
    /\ backup_root = FALSE
    /\ preview = TRUE
    /\ force = FALSE
    /\ strategy = "ask"
    /\ process_templates = TRUE
    /\ pc = "parse"
    /\ idx = 0
    /\ files_to_sync = <<>>
    /\ files_identical = <<>>
    /\ files_skipped = <<>>
    /\ files_synced = <<>>
    /\ actions = <<>>
    /\ result = NoResult
    /\ stderr = {}
    /\ inputs_read = 0
    /\ last_answer = <<"none", "">>
    /\ views = 0
    /\ templates_processed = 0
    /\ rollback_left = {}
    /\ home0 = home
    /\ backup_root0 = backup_root
    /\ backups_written = <<>>
    /\ applied = <<>>

NextParse ==
    \/ ConfigMissing
    \/ ReadLine
    \/ EndOfFile
    \/ Validate
    \/ Dispatch
    \/ MainExcept

SpecParse == InitParse /\ [][NextParse]_vars

----------------------------------------------------------------------------
(* Properties of parse_config and main *)

\* The fields of a mapping line as the file format defines them:
\* repoPath:destPath, or custom:customName:destPath split at the rightmost
\* colon; surrounding blanks are not part of a field.
IsMappingLine(raw) ==
    LET l == strip(raw)
    IN  /\ l # <<>>
        /\ Head(l) # "#"
        /\ HasColon(l)
        /\ startswith(l, CustomPrefix) => HasColon(From(l, 8))
LineFields(raw) ==
    LET l == strip(raw)
        rest == From(l, 8)
    IN  IF startswith(l, CustomPrefix)
        THEN [first |-> strip(SubSeq(rest, 1, rfind(rest) - 1)),
              second |-> strip(From(rest, rfind(rest) + 1))]
        ELSE [first |-> strip(SubSeq(l, 1, find(l) - 1)),
              second |-> strip(From(l, find(l) + 1))]

\* path has a segment that is exactly ".."
HasDotDotSegment(path) ==
    \E i \in 1..(Len(path) - 1) :
        /\ path[i] = "." /\ path[i + 1] = "."
        /\ (i = 1 \/ path[i - 1] = "/")
        /\ (i + 1 = Len(path) \/ path[i + 2] = "/")

UnsafeLine(raw) ==
    /\ IsMappingLine(raw)
    /\ \/ LineFields(raw).second \in {<<"/">>, <<"~">>}
       \/ HasDotDotSegment(LineFields(raw).first)
       \/ HasDotDotSegment(LineFields(raw).second)
BothFields(raw) == LineFields(raw).first # <<>> /\ LineFields(raw).second # <<>>

LineRead == pc = "parse" /\ line_num' = line_num + 1

C8_NoPartialConfigUsed ==
    fatal_at # 0 =>
        /\ line_num = fatal_at
        /\ pc \in {"raised", "done"}
        /\ op_run = "none"
        /\ errors = {}
        /\ (pc = "done" => result = 1)

C8_Witness ==
    /\ fatal_at = 2
    /\ dotfiles # <<>>
    /\ pc = "done"
    /\ result = 1

----------------------------------------------------------------------------
(* process_template_file.  Texts are sequences of characters; "xFF" stands *)
(* for a byte sequence that does not decode as UTF-8, "BACKTICK" for the   *)
(* backtick character.                                                     *)

MaxEnvFiles == 2       \* get_secrets_files() names two candidates

Absent == [kind |-> "none", text |-> <<>>]
Text(t) == [kind |-> "file", text |-> t]
Folder == [kind |-> "dir", text |-> <<>>]
decodes(t) == \A i \in DOMAIN t : t[i] # "xFF"

Letters == {"a", "b", "c", "d", "e", "f", "g", "h", "i", "j", "k", "l", "m", "n",
            "o", "p", "q", "r", "s", "t", "u", "v", "w", "x", "y", "z", "V", "W", "_",
            "A", "E", "I", "K", "P", "Y"}
Digits == {"0", "1", "2", "3", "4", "5", "6", "7", "8", "9"}
Ws == {" ", "\n"}

EVAL == <<"e", "v", "a", "l">>
EXEC == <<"e", "x", "e", "c">>
DEV == <<"/", "d", "e", "v", "/">>
RM == <<"r", "m">>
RF == <<"-", "r", "f">>
EXPORT == <<"e", "x", "p", "o", "r", "t">>

\* length of the longest run of characters of set cs that starts at s[i]
RunLen(s, i, cs) ==
    CHOOSE n \in 0..(Len(s) - i + 1) :
        /\ \A k \in i..(i + n - 1) : s[k] \in cs
        /\ (i + n > Len(s) \/ s[i + n] \notin cs)
AtLit(s, i, lit) == i + Len(lit) - 1 <= Len(s) /\ SubSeq(s, i, i + Len(lit) - 1) = lit

\* getenv(name) of a child whose environment is env; unset reads as empty
Getenv(env, name) == IF name \in DOMAIN env THEN env[name] ELSE <<>>
Setenv(env, name, value) ==
    [n \in DOMAIN env \cup {name} |-> IF n = name THEN value ELSE env[n]]

\* envsubst(1) with no SHELL-FORMAT: $NAME and ${NAME} become the value of
\* NAME, the empty text when NAME is unset; anything else is copied
RECURSIVE envsubst(_, _)
envsubst(text, env) ==
    IF text = <<>> THEN <<>>
    ELSE IF Head(text) # "$" THEN <<Head(text)>> \o envsubst(Tail(text), env)
    ELSE LET brace == Len(text) >= 2 /\ text[2] = "{"
             start == IF brace THEN 3 ELSE 2
             named == start <= Len(text) /\ text[start] \in Letters
             n == IF named THEN RunLen(text, start, Letters \cup Digits) ELSE 0
             name == SubSeq(text, start, start + n - 1)
             closed == start + n <= Len(text) /\ text[start + n] = "}"
         IN  IF named /\ (~brace \/ closed)
             THEN Getenv(env, name)
                  \o envsubst(From(text, start + n + (IF brace THEN 1 ELSE 0)), env)
             ELSE SubSeq(text, 1, start + n - 1) \o envsubst(From(text, start + n), env)

\* content.split('\n')
RECURSIVE split(_)
split(content) ==
    IF \E i \in DOMAIN content : content[i] = "\n"
    THEN LET i == CHOOSE j \in DOMAIN content :
                      content[j] = "\n" /\ \A k \in 1..(j - 1) : content[k] # "\n"
         IN  <<SubSeq(content, 1, i - 1)>> \o split(From(content, i + 1))
    ELSE <<content>>

\* Lines 218-233: the dangerous patterns; command substitution, backtick and
\* pipe-to-shell can only match where the character class of the first
\* pattern already matches
DangerChars == {";", "&", "|", "BACKTICK", "$", "(", ")", "{", "}"}
Dangerous(content) ==
    \/ \E i \in DOMAIN content : content[i] \in DangerChars
    \/ \E i \in DOMAIN content :
          /\ AtLit(content, i, EVAL) \/ AtLit(content, i, EXEC)
          /\ i + 4 <= Len(content) /\ content[i + 4] \in Ws
    \/ \E i \in DOMAIN content :
          /\ content[i] = ">"
          /\ AtLit(content, i + 1 + RunLen(content, i + 1, Ws), DEV)
    \/ \E i \in DOMAIN content :
          /\ AtLit(content, i, RM)
          /\ RunLen(content, i + 2, Ws) >= 1
          /\ AtLit(content, i + 2 + RunLen(content, i + 2, Ws), RF)

\* Lines 242 and 245: KEY=VALUE and export KEY=VALUE
IsAssignment(line) ==
    /\ line # <<>>
    /\ Head(line) \in Letters
    /\ AtLit(line, 1 + RunLen(line, 1, Letters \cup Digits), <<"=">>)
IsExport(line) ==
    /\ AtLit(line, 1, EXPORT)
    /\ RunLen(line, 7, Ws) >= 1
    /\ IsAssignment(From(line, 7 + RunLen(line, 7, Ws)))

\* Lines 236-237: the stripped lines that are neither blank nor comments
EnvLines(content) ==
    LET ls == split(content)
    IN  SelectSeq([i \in DOMAIN ls |-> strip(ls[i])],
                  LAMBDA l : l # <<>> /\ Head(l) # "#")

\* validate_env_file without the 'lines and' guard of line 249: the ratio
\* of an empty file divides by zero and the handler of line 256 answers False
validate_env_file_NoEmptyGuard(f) ==
    /\ f.kind = "file"
    /\ decodes(f.text)
    /\ ~Dangerous(f.text)
    /\ LET lines == EnvLines(f.text)
           valid_lines == Len(SelectSeq(lines, LAMBDA l : IsAssignment(l) \/ IsExport(l)))
       IN  lines # <<>> /\ ~(5 * valid_lines < 4 * Len(lines))
\* validate_env_file (lines 199-259)
validate_env_file(f) ==
    /\ f.kind = "file"
    /\ decodes(f.text)
    /\ ~Dangerous(f.text)
    /\ LET lines == EnvLines(f.text)
           valid_lines == Len(SelectSeq(lines, LAMBDA l : IsAssignment(l) \/ IsExport(l)))
       IN  ~(lines # <<>> /\ 5 * valid_lines < 4 * Len(lines))

\* The effect on the exported variables of 'source f' for a validated file
\* whose values are single unquoted words: export NAME=value exports NAME;
\* a plain NAME=value changes an exported NAME and is otherwise invisible
\* to child processes
RECURSIVE source_lines(_, _)
source_lines(lines, env) ==
    IF lines = <<>> THEN env
    ELSE LET l == Head(lines)
             a == IF IsExport(l) THEN From(l, 7 + RunLen(l, 7, Ws)) ELSE l
             n == RunLen(a, 1, Letters \cup Digits)
             name == SubSeq(a, 1, n)
         IN  source_lines(Tail(lines),
                 IF IsExport(l) \/ (IsAssignment(l) /\ name \in DOMAIN env)
                 THEN Setenv(env, name, From(a, n + 2))
                 ELSE env)

\* Lines 329-341: '(source f1 2>/dev/null || true && ... && envsubst < file
\* > tmp)' run by /bin/sh.  A /bin/sh without the source builtin (dash)
\* fails each source silently, so envsubst sees os.environ alone.
RECURSIVE child_env(_, _, _)
child_env(files, env, has_source) ==
    IF files = <<>> \/ ~has_source THEN env
    ELSE child_env(Tail(files), source_lines(EnvLines(Head(files).text), env), has_source)

\* the pattern of line 194 without its first character class: a name may
\* begin with a digit
detect_template_variables_DigitStart(f) ==
    IF f.kind # "file" \/ ~decodes(f.text) THEN {}
    ELSE {SubSeq(f.text, i + 2, j - 1) : <<i, j>> \in
            {p \in (DOMAIN f.text) \X (DOMAIN f.text) :
                /\ p[1] + 2 < p[2]
                /\ f.text[p[1]] = "$" /\ f.text[p[1] + 1] = "{" /\ f.text[p[2]] = "}"
                /\ \A k \in (p[1] + 2)..(p[2] - 1) : f.text[k] \in Letters \cup Digits}}
\* detect_template_variables (lines 171-196): the names N with ${N} in the
\* decoded text; no names when the file cannot be read or decoded
detect_template_variables(f) ==
    IF f.kind # "file" \/ ~decodes(f.text) THEN {}
    ELSE {SubSeq(f.text, i + 2, j - 1) : <<i, j>> \in
            {p \in (DOMAIN f.text) \X (DOMAIN f.text) :
                /\ p[1] + 2 < p[2]
                /\ f.text[p[1]] = "$" /\ f.text[p[1] + 1] = "{" /\ f.text[p[2]] = "}"
                /\ f.text[p[1] + 2] \in Letters
                /\ \A k \in (p[1] + 2)..(p[2] - 1) : f.text[k] \in Letters \cup Digits}}

\* str.strip('"\'') and str.strip()
Quotes == {"\"", "'"}
RECURSIVE strip_chars(_, _)
strip_chars(s, cs) ==
    IF s # <<>> /\ Head(s) \in cs THEN strip_chars(Tail(s), cs)
    ELSE IF s # <<>> /\ s[Len(s)] \in cs THEN strip_chars(SubSeq(s, 1, Len(s) - 1), cs)
    ELSE s

\* Lines 483-488: re.findall('^VAR=(.*)$', content, re.MULTILINE)[-1], stripped
\* of blanks and quotes; <<>> when nothing matches
file_value(content, var) ==
    LET matches == SelectSeq(split(content), LAMBDA l : startswith(l, var \o <<"=">>))
    IN  IF matches = <<>> THEN <<>>
        ELSE strip_chars(strip_chars(From(matches[Len(matches)], Len(var) + 2), Ws), Quotes)

\* Lines 477-496: a candidate that exists, decodes and whose last assignment
\* of var is not empty
HasValue(f, var) ==
    f.kind = "file" /\ decodes(f.text) /\ file_value(f.text, var) # <<>>

\* Lines 467-496: the source recorded for var, 0 for "system environment",
\* i for env_files[i]; later candidates override earlier ones
SourceOf(var, files, env) ==
    IF \E i \in DOMAIN files : HasValue(files[i], var)
    THEN CHOOSE i \in DOMAIN files :
            HasValue(files[i], var) /\ \A j \in (i + 1)..Len(files) : ~HasValue(files[j], var)
    ELSE 0

\* analyze_template_environment (lines 385-541)
analyze_template_environment(template, files, env) ==
    LET variables_needed == detect_template_variables(template)
        found == {v \in variables_needed :
                    v \in DOMAIN env \/ \E i \in DOMAIN files : HasValue(files[i], v)}
    IN  [success |-> found = variables_needed,
         variables |-> variables_needed,
         sources |-> [v \in found |-> SourceOf(v, files, env)]]


----------------------------------------------------------------------------
(* analyze_template_environment followed by process_template_file on one   *)
(* file, as process_synced_templates (lines 615-618) and main (lines       *)
(* 1097-1104) call them                                                    *)

nontplvars == <<confvars, syncvars_but_stderr, mainvars, seqvars, batchvars, result, analysis>>

TReturn(value) ==
    /\ returned' = value
    /\ pc' = "t_returned"

\* Line 615, line 1097: the analysis that precedes the processing of a file
AnalyzeEnv ==
    /\ pc = "t_analyze"
    /\ analysis' = analyze_template_environment(tpl_file, env_files, environ)
    /\ pc' = "t_tool"
    /\ UNCHANGED <<confvars, syncvars, mainvars, seqvars, batchvars, result, tpl_file, tpl_writable,
                   tpl_backup,
                   tpl_tmp, env_files, environ, valid_env_files, run, returned, tpl_file0,
                   tpl_out>>

\* Lines 278-284: is envsubst installed and answering
CheckTool ==
    /\ pc = "t_tool"
    /\ \E available \in BOOLEAN :
          IF available
          THEN pc' = "t_file" /\ UNCHANGED <<returned, stderr>>
          ELSE TReturn("False") /\ stderr' = stderr \cup {<<"no_envsubst", 0>>}
    /\ UNCHANGED <<nontplvars, tpl_file, tpl_writable, tpl_backup, tpl_tmp, env_files,
                   environ, valid_env_files, run, tpl_file0, tpl_out>>

\* Lines 287-290
CheckFile ==
    /\ pc = "t_file"
    /\ IF tpl_file.kind # "file"
       THEN TReturn("False") /\ stderr' = stderr \cup {<<"not_a_file", 0>>}
       ELSE pc' = "t_backup" /\ UNCHANGED <<returned, stderr>>
    /\ UNCHANGED <<nontplvars, tpl_file, tpl_writable, tpl_backup, tpl_tmp, env_files,
                   environ, valid_env_files, run, tpl_file0, tpl_out>>

\* Lines 293-301: the .template_backup file is created, then filled with the
\* decoded text of the file; a text that does not decode raises (line 380)
Backup ==
    /\ pc = "t_backup"
    /\ IF decodes(tpl_file.text)
       THEN /\ tpl_backup' = Text(tpl_file.text)
            /\ pc' = "t_env"
            /\ UNCHANGED <<returned, stderr>>
       ELSE /\ tpl_backup' = Text(<<>>)
            /\ TReturn("False")
            /\ stderr' = stderr \cup {<<"error", 0>>}
    /\ UNCHANGED <<nontplvars, tpl_file, tpl_writable, tpl_tmp, env_files, environ,
                   valid_env_files, run, tpl_file0, tpl_out>>

\* Lines 304-311
ValidateEnv ==
    /\ pc = "t_env"
    /\ valid_env_files' =
          SelectSeq([i \in DOMAIN env_files |-> i],
                    LAMBDA i : env_files[i].kind # "none" /\ validate_env_file(env_files[i]))
    /\ stderr' = stderr \cup
          {<<"unsafe_env", i>> : i \in {j \in DOMAIN env_files :
              env_files[j].kind # "none" /\ ~validate_env_file(env_files[j])}}
    /\ pc' = "t_tmp"
    /\ UNCHANGED <<nontplvars, tpl_file, tpl_writable, tpl_backup, tpl_tmp, env_files,
                   environ, run, returned, tpl_file0, tpl_out>>

\* Lines 314-321: the empty .tmp output file
TempFile ==
    /\ pc = "t_tmp"
    /\ tpl_tmp' = Text(<<>>)
    /\ pc' = "t_run"
    /\ UNCHANGED <<nontplvars, stderr, tpl_file, tpl_writable, tpl_backup, env_files,
                   environ, valid_env_files, run, returned, tpl_file0, tpl_out>>

\* Line 334: the shell redirects the output of envsubst to the .tmp file
OutputTarget_InPlace == "file"
OutputTarget == "tmp"

Outcomes == {"ok", "nonzero", "timeout", "no_output"}

\* Lines 324-351, and 371-379 when subprocess.run raises TimeoutExpired
Run ==
    /\ pc = "t_run"
    /\ \E outcome \in Outcomes, has_source \in BOOLEAN :
          LET sourced == [i \in DOMAIN valid_env_files |-> env_files[valid_env_files[i]]]
              written == CASE outcome = "ok" ->
                                Text(envsubst(tpl_file.text,
                                              child_env(sourced, environ, has_source)))
                           [] outcome = "no_output" -> Absent
                           [] OTHER -> Text(<<>>)
          IN  /\ run' = outcome
              /\ tpl_out' = written
              /\ tpl_file' = IF OutputTarget = "tmp" THEN tpl_file ELSE written
              /\ IF outcome = "timeout"
                 THEN /\ tpl_tmp' = Absent
                      /\ TReturn("False")
                      /\ stderr' = stderr \cup {<<"timed_out", 0>>}
                 ELSE /\ tpl_tmp' = IF OutputTarget = "tmp" THEN written ELSE tpl_tmp
                      /\ pc' = "t_commit"
                      /\ UNCHANGED <<returned, stderr>>
    /\ UNCHANGED <<nontplvars, tpl_writable, tpl_backup, env_files, environ,
                   valid_env_files, tpl_file0>>

returncode(outcome) == IF outcome = "nonzero" THEN 1 ELSE 0

\* Lines 353-374: the checks, the replacement of the file and the finally
\* clause; undecodable output and a file that cannot be opened for writing
\* raise (line 380)
Commit ==
    /\ pc = "t_commit"
    /\ IF returncode(run) # 0
       THEN /\ stderr' = stderr \cup {<<"failed", 0>>}
            /\ returned' = "False"
            /\ UNCHANGED tpl_file
       ELSE IF tpl_tmp.kind = "none"
       THEN /\ stderr' = stderr \cup {<<"no_output", 0>>}
            /\ returned' = "False"
            /\ UNCHANGED tpl_file
       ELSE IF ~decodes(tpl_tmp.text) \/ ~tpl_writable
       THEN /\ stderr' = stderr \cup {<<"error", 0>>}
            /\ returned' = "False"
            /\ UNCHANGED tpl_file
       ELSE /\ tpl_file' = Text(tpl_tmp.text)
            /\ returned' = "True"
            /\ UNCHANGED stderr
    /\ tpl_tmp' = Absent
    /\ pc' = "t_returned"
    /\ UNCHANGED <<nontplvars, tpl_writable, tpl_backup, env_files, environ,
                   valid_env_files, run, tpl_file0, tpl_out>>

\* Lines 618-624: process_synced_templates counts the template files whose
\* call returned True; main, the only caller for a file without placeholders,
\* keeps no count
Tally ==
    /\ pc = "t_returned"
    /\ templates_processed' =
          IF returned = "True" /\ detect_template_variables(tpl_file0) # {}
          THEN templates_processed + 1
          ELSE templates_processed
    /\ pc' = "done"
    /\ UNCHANGED <<confvars, mainvars, tplvars, seqvars, batchvars, result, stderr, repo, custom, home,
                   backup,
                   backup_root, preview, strategy, force, process_templates, idx,
                   files_to_sync, files_identical, files_skipped, files_synced, actions,
                   inputs_read, last_answer, views, rollback_left, home0, backup_root0,
                   backups_written, applied>>

TemplateFiles ==
    {Absent, Folder,
     Text(<<>>),
     Text(<<"k">>),
     Text(<<"$", "{", "V", "}">>),
     Text(<<"k", "$", "{", "V", "}">>),
     Text(<<"$", "V">>),
     Text(<<"$", "{", "V", "}", "$", "{", "W", "}">>),
     Text(<<"$", "{", "V">>),
     Text(<<"xFF">>)}
\* The first malicious file of test_validate_malicious_shell_injection
ApiKeyFile ==
    Text(<<"A", "P", "I", "_", "K", "E", "Y", "=", "$", "(", "r", "m", " ", "-", "r", "f",
           " ", "/", ")">>)
EnvFileContents ==
    {Absent, ApiKeyFile,
     Text(<<>>),
     Text(<<"V", "=", "1", "\n">>),
     Text(<<"V", "=", "1", "\n", "V", "=", "\n">>),
     Text(<<"e", "x", "p", "o", "r", "t", " ", "V", "=", "1", "\n">>),
     Text(<<"e", "x", "p", "o", "r", "t", " ", "V", "=", "\n">>),
     Text(<<"e", "x", "p", "o", "r", "t", " ", "W", "=", "2", "\n", "V", "=", "3", "\n">>),
     Text(<<"V", "=", "$", "(", "k", ")", "\n">>),
     Text(<<"k", " ", "k", "\n">>),
     Text(<<"xFF">>)}
Environs ==
    {[n \in {} |-> <<>>], [n \in {<<"V">>} |-> <<"1">>], [n \in {<<"V">>} |-> <<"xFF">>]}

ConfigIdle ==
    /\ dotfiles = <<>>
    /\ file_map = <<>>
    /\ custom_map = <<>>
SyncIdle ==
    /\ repo = <<>>
    /\ custom = <<>>
    /\ home = <<>>
    /\ backup = <<>>
    /\ backup_root = FALSE
    /\ preview = TRUE
    /\ force = FALSE
    /\ strategy = "ask"
    /\ process_templates = TRUE
    /\ idx = 0
    /\ files_to_sync = <<>>
    /\ files_identical = <<>>
    /\ files_skipped = <<>>
    /\ files_synced = <<>>
    /\ actions = <<>>
    /\ inputs_read = 0
    /\ last_answer = <<"none", "">>
    /\ views = 0
    /\ templates_processed = 0
    /\ rollback_left = {}
    /\ home0 = home
    /\ backup_root0 = backup_root
    /\ backups_written = <<>>
    /\ applied = <<>>

InitTemplate ==
    /\ ConfigIdle
    /\ op_no = 1
    /\ BatchIdle
    /\ SyncIdle
    /\ MainIdle
    /\ result = NoResult
    /\ stderr = {}
    /\ pc = "t_analyze"
    /\ analysis = [success |-> TRUE, variables |-> {}, sources |-> <<>>]
    /\ tpl_file \in TemplateFiles
    /\ tpl_writable \in BOOLEAN
    /\ \E n \in 0..MaxEnvFiles : env_files \in [1..n -> EnvFileContents]
    /\ environ \in Environs
    /\ tpl_backup = Absent
    /\ tpl_tmp = Absent
    /\ tpl_out = Absent
    /\ valid_env_files = <<>>
    /\ run = "none"
    /\ returned = "none"
    /\ tpl_file0 = tpl_file

NextTemplate ==
    \/ AnalyzeEnv
    \/ CheckTool
    \/ CheckFile
    \/ Backup
    \/ ValidateEnv
    \/ TempFile
    \/ Run
    \/ Commit
    \/ Tally

SpecTemplate == InitTemplate /\ [][NextTemplate]_vars

----------------------------------------------------------------------------
(* Properties of process_template_file *)

C10_EmptyOutputIsFailure ==
    /\ tpl_file # tpl_file0 => (run = "ok" /\ tpl_out.kind = "file" /\ tpl_out.text # <<>>)
    /\ (pc = "done" /\ run = "ok" /\ tpl_out = Text(<<>>)) =>
          (returned = "False" /\ tpl_file = tpl_file0)

\* C11: once process_template_file has returned, True or False, neither the
\* .tmp output file nor the .template_backup copy exists beside the file.
C11_NoWorkingFileLeftBehind ==
    returned # "none" => (tpl_tmp = Absent /\ tpl_backup = Absent)

Chars(t) == {t[i] : i \in DOMAIN t}
SafeFiles == {i \in DOMAIN env_files : validate_env_file(env_files[i])}

\* C12: a candidate that is missing or fails validate_env_file is never a
\* source of values: the analysis names only Safe files as the source of a
\* variable, every character of a substituted file comes from the template,
\* os.environ or a Safe file, and each Unsafe file is warned about.
C12_UnsafeFilesNeverRead ==
    /\ \A v \in DOMAIN analysis.sources :
          analysis.sources[v] # 0 => analysis.sources[v] \in SafeFiles
    /\ returned = "True" =>
          Chars(tpl_file.text) \subseteq
              UNION ({Chars(tpl_file0.text)}
                     \cup {Chars(environ[n]) : n \in DOMAIN environ}
                     \cup {Chars(env_files[i].text) : i \in SafeFiles})
    /\ returned # "none" /\ run # "none" =>
          \A i \in DOMAIN env_files :
              (env_files[i].kind # "none" /\ i \notin SafeFiles) => <<"unsafe_env", i>> \in stderr

\* C13: a file with a placeholder processed while no candidate env file is
\* Safe comes back unchanged, is not counted as processed, and the call
\* returns instead of raising.
C13_NoSafeSourceLeavesTemplate ==
    (pc = "done" /\ detect_template_variables(tpl_file0) # {} /\ SafeFiles = {}) =>
        /\ tpl_file = tpl_file0
        /\ templates_processed = 0
        /\ returned = "False"

\* C14: a sync-in run in which the substitution of at least one template
\* file failed (an applied file still holds its placeholders after the
\* template batch) ends with exit status 1.
C14_TemplateFailureFailsRun ==
    (pc = "done" /\ process_templates /\ TemplatesFound # {}) => result = 1

----------------------------------------------------------------------------
(* Two invocations in a row on the same file system *)

\* main (lines 1061-1066) run once more, with the same arguments, after the
\* first operation returned: a fresh sync_from_repo call on the file system
\* the first one left
NextOperation ==
    /\ pc = "done"
    /\ op_no = 1
    /\ op_no' = 2
    /\ pc' = "start"
    /\ result' = NoResult
    /\ preview' = TRUE
    /\ idx' = 0
    /\ files_to_sync' = <<>>
    /\ files_identical' = <<>>
    /\ files_skipped' = <<>>
    /\ files_synced' = <<>>
    /\ actions' = [k \in AllKeys |-> "unset"]
    /\ stderr' = {}
    /\ inputs_read' = 0
    /\ last_answer' = <<"none", "">>
    /\ views' = 0
    /\ templates_processed' = 0
    /\ rollback_left' = {}
    /\ home0' = home
    /\ backup_root0' = backup_root
    /\ backups_written' = <<>>
    /\ applied' = <<>>
    /\ UNCHANGED <<confvars, mainvars, tplvars, batchvars, repo, custom, home, backup,
                   backup_root, strategy, force, process_templates>>

\* sync_from_repo with force, twice; sources may differ from one another
TwiceRepoContents == RepoContents \cup {File("A")}
InitTwice == InitSyncWith(TwiceRepoContents, "start") /\ force

\* With force the preview is turned off (lines 746-748), so the preview loop
\* and the confirmation (lines 829-882) are never entered
NextTwice ==
    \/ Begin
    \/ Analyze
    \/ Summary
    \/ ApplyBackup
    \/ ApplyCopy
    \/ Finish
    \/ NextOperation

SpecTwice == InitTwice /\ [][NextTwice]_vars

\* C15: in the second of two forced sync-in runs that replace every entry
\* (strategy other than skip) no entry is classified Modified.
C15_SecondRunFindsNothingModified ==
    (op_no = 2 /\ strategy # "skip") => \A i \in DOMAIN files_to_sync : files_to_sync[i].status # "modified"

----------------------------------------------------------------------------
(* sync_to_repo, then a forced sync_from_repo *)

\* Lines 952-956
BeginCollect ==
    /\ pc = "sync_to_repo"
    /\ pc' = "collect"
    /\ idx' = 1
    /\ UNCHANGED <<seqvars, batchvars, mainvars, tplvars, confvars, repo, custom, home, backup,
                   backup_root, preview, strategy, force, process_templates, files_to_sync,
                   files_identical, files_skipped, files_synced, actions, result, stderr,
                   inputs_read, last_answer, views, templates_processed, rollback_left,
                   home0, backup_root0, backups_written, applied>>

\* Lines 956-972: one entry of file_map collected into the repository
Collect ==
    /\ pc = "collect"
    /\ idx <= Len(file_map)
    /\ LET e == file_map[idx]
           source_file == home[e.dest_path]
           repo_file == repo[e.repo_path]
       IN  IF ~exists(source_file)
           THEN /\ idx' = idx + 1
                /\ UNCHANGED <<repo, pc>>
           ELSE IF is_dir(source_file) /\ is_file(repo_file)
           THEN \* shutil.rmtree on a regular file raises NotADirectoryError
                /\ pc' = "raised"
                /\ UNCHANGED <<repo, idx>>
           ELSE /\ repo' = [repo EXCEPT ![e.repo_path] =
                               IF is_dir(source_file) THEN copytree(source_file)
                               ELSE copy2(source_file, e.dest_path, repo_file)]
                /\ idx' = idx + 1
                /\ UNCHANGED pc
    /\ UNCHANGED <<seqvars, batchvars, mainvars, tplvars, confvars, custom, home, backup, backup_root,
                   preview, strategy, force, process_templates, files_to_sync,
                   files_identical, files_skipped, files_synced, actions, result, stderr,
                   inputs_read, last_answer, views, templates_processed, rollback_left,
                   home0, backup_root0, backups_written, applied>>

\* Lines 974-975
CollectDone ==
    /\ pc = "collect"
    /\ idx > Len(file_map)
    /\ Return(0)
    /\ UNCHANGED <<seqvars, batchvars, mainvars, tplvars, confvars, syncvars>>

InitRoundTrip ==
    /\ InitSyncWith(RepoContents, "sync_to_repo")
    /\ force

NextRoundTrip ==
    \/ BeginCollect
    \/ Collect
    \/ CollectDone
    \/ NextOperation
    \/ Begin
    \/ Analyze
    \/ Summary
    \/ ApplyBackup
    \/ ApplyCopy
    \/ Finish

SpecRoundTrip == InitRoundTrip /\ [][NextRoundTrip]_vars

\* C16: when sync-out and the forced sync-in after it have ended, every
\* mapped destination that existed holds what it held before sync-out (home0:
\* sync-out leaves the home directory as it was).
C16_RoundTrip ==
    (op_no = 2 /\ pc \in {"done", "raised"}) =>
        \A i \in DOMAIN file_map :
            exists(home0[file_map[i].dest_path]) =>
                home[file_map[i].dest_path] = home0[file_map[i].dest_path]

Validated == pc \in {"t_tmp", "t_run"}
ClassifiedSafe(i) == \E k \in DOMAIN valid_env_files : valid_env_files[k] = i
\* every non-blank, non-comment line is KEY=value or export KEY=value
OnlyAssignments(f) ==
    /\ f.kind = "file"
    /\ \A k \in DOMAIN EnvLines(f.text) :
          IsAssignment(EnvLines(f.text)[k]) \/ IsExport(EnvLines(f.text)[k])

AssignedName(l) ==
    LET a == IF IsExport(l) THEN From(l, 7 + RunLen(l, 7, Ws)) ELSE l
    IN  SubSeq(a, 1, RunLen(a, 1, Letters \cup Digits))
AssignedValue(l) ==
    LET a == IF IsExport(l) THEN From(l, 7 + RunLen(l, 7, Ws)) ELSE l
    IN  From(a, RunLen(a, 1, Letters \cup Digits) + 2)
\* the last non-empty assignment of var in a file, <<>> when there is none
LastNonEmpty(f, var) ==
    LET given == SelectSeq(EnvLines(f.text),
                           LAMBDA l : /\ IsAssignment(l) \/ IsExport(l)
                                      /\ AssignedName(l) = var
                                      /\ AssignedValue(l) # <<>>)
    IN  IF given = <<>> THEN <<>> ELSE AssignedValue(given[Len(given)])
Provides(i, var) == LastNonEmpty(env_files[i], var) # <<>>
\* the highest-precedence file that provides var
Provider(var) ==
    CHOOSE i \in DOMAIN env_files :
        Provides(i, var) /\ \A j \in (i + 1)..Len(env_files) : ~Provides(j, var)
AssignedNames ==
    {AssignedName(EnvLines(env_files[i].text)[k]) :
        <<i, k>> \in {p \in (DOMAIN env_files) \X (1..8) :
                        /\ p[2] \in DOMAIN EnvLines(env_files[p[1]].text)
                        /\ Provides(p[1], AssignedName(EnvLines(env_files[p[1]].text)[p[2]]))}}
\* the environment the claim resolves: the files' values over os.environ
ResolvedEnv ==
    [n \in DOMAIN environ \cup AssignedNames |->
        IF n \in AssignedNames THEN LastNonEmpty(env_files[Provider(n)], n) ELSE environ[n]]

\* C19: when every environment file is Safe and the file was processed
\* successfully, each required variable that a file assigns is reported by
\* the analysis as coming from the highest-precedence file with a non-empty
\* assignment of it, and the substituted file holds the last non-empty value
\* of that file
C19_ResolvedValue ==
    (/\ returned = "True"
     /\ \A i \in DOMAIN env_files : validate_env_file(env_files[i])) =>
        /\ \A var \in detect_template_variables(tpl_file0) :
              (\E i \in DOMAIN env_files : Provides(i, var)) =>
                  /\ var \in DOMAIN analysis.sources
                  /\ analysis.sources[var] = Provider(var)
        /\ tpl_file.text = envsubst(tpl_file0.text, ResolvedEnv)

\* ---------------------------------------------------------------------------
\* C20
\* ---------------------------------------------------------------------------
\* validate() has run on the parsed configuration
HasValidated == pc = "dispatch" \/ op_run # "none" \/ errors # {}
AnyEntry == dotfiles # <<>> \/ DOMAIN custom_map # {}
AllRegularExist == \A i \in DOMAIN dotfiles : exists(repo[dotfiles[i]])
AllOverlayExist == \A d \in DOMAIN custom_map : exists(custom[custom_map[d]])
NoRepoPathTwice == \A i, j \in DOMAIN dotfiles : dotfiles[i] = dotfiles[j] => i = j

\* C20: validate() returns no error exactly when at least one mapping entry
\* exists, every Regular source exists under the repository directory, every
\* Overlay source exists under the overlay directory and no repoPath occurs
\* twice; so each violated condition yields at least one error
C20_ValidateExact ==
    HasValidated =>
        (errors = {} <=>
            AnyEntry /\ AllRegularExist /\ AllOverlayExist /\ NoRepoPathTwice)

----------------------------------------------------------------------------
(* detect_template_variables on every short text over a small alphabet     *)

MaxTemplateLen == 7    \* the longest template text; "${${V}}" has 7 characters
TemplateAlphabet == {"$", "{", "}", "V", "1"}
DetectTexts ==
    LET plain == UNION {[1..n -> TemplateAlphabet] : n \in 0..MaxTemplateLen}
    IN  plain \cup {t \o <<"xFF">> : t \in {u \in plain : Len(u) <= 2}}

InitDetect ==
    /\ ConfigIdle
    /\ op_no = 1
    /\ BatchIdle
    /\ SyncIdle
    /\ MainIdle
    /\ result = NoResult
    /\ stderr = {}
    /\ pc = "t_analyze"
    /\ analysis = [success |-> TRUE, variables |-> {}, sources |-> <<>>]
    /\ tpl_file \in {Absent, Folder} \cup {Text(t) : t \in DetectTexts}
    /\ tpl_writable = TRUE
    /\ env_files = <<>>
    /\ environ = <<>>
    /\ tpl_backup = Absent
    /\ tpl_tmp = Absent
    /\ tpl_out = Absent
    /\ valid_env_files = <<>>
    /\ run = "none"
    /\ returned = "none"
    /\ tpl_file0 = tpl_file

NextDetect == AnalyzeEnv

SpecDetect == InitDetect /\ [][NextDetect]_vars

\* ---------------------------------------------------------------------------
\* C21
\* ---------------------------------------------------------------------------
\* N is one letter or underscore followed by letters, digits or underscores
IsName(n) ==
    /\ n # <<>>
    /\ n[1] \in Letters
    /\ \A k \in DOMAIN n : n[k] \in Letters \cup Digits
Contains(t, lit) == \E i \in DOMAIN t : AtLit(t, i, lit)
PlaceholderNames(t) ==
    {n \in {SubSeq(t, a, b) : a, b \in DOMAIN t} :
        IsName(n) /\ Contains(t, <<"$", "{">> \o n \o <<"}">>)}

\* C21: detect_template_variables returns exactly the names N, one letter or
\* underscore followed by letters, digits or underscores, for which the
\* decoded text contains ${N}; an unclosed ${V and ${} contribute nothing,
\* ${${V}} contributes V, and a file that cannot be read or decoded yields
\* the empty set
C21_ExactlyThePlaceholders ==
    pc # "t_analyze" =>
        /\ (tpl_file.kind = "file" /\ decodes(tpl_file.text)) =>
              analysis.variables = PlaceholderNames(tpl_file.text)
        /\ (tpl_file.kind # "file" \/ ~decodes(tpl_file.text)) => analysis.variables = {}
        /\ tpl_file.text \in {<<"$", "{", "V">>, <<"$", "{", "}">>} => analysis.variables = {}
        /\ tpl_file.text = <<"$", "{", "$", "{", "V", "}", "}">> =>
              analysis.variables = {<<"V">>}

\* C21 witness: the nested placeholder ${${V}} has been scanned and V found
C21_Witness ==
    /\ pc # "t_analyze"
    /\ tpl_file.text = <<"$", "{", "$", "{", "V", "}", "}">>
    /\ analysis.variables = {<<"V">>}

----------------------------------------------------------------------------
(* The apply phase of a forced sync_from_repo at the grain of file-system  *)
(* calls: shutil.copy2 opens its target for writing, which truncates it,   *)
(* and then writes; a directory is removed (shutil.rmtree) and then copied *)
(* (shutil.copytree)                                                       *)

\* Lines 925-931, first call: rmtree of an existing destination directory,
\* or the open(dst, 'wb') of copy2 that leaves an existing or new file empty
CopyClear ==
    /\ pc = "copy"
    /\ LET f == files_to_sync[idx]
           source == SourceOfKey(f.repo_path)
           dest == home[f.dest_path]
       IN  IF is_dir(source) /\ is_file(dest)
           THEN \* shutil.rmtree on a regular file raises NotADirectoryError
                /\ pc' = "raised"
                /\ UNCHANGED <<home, applied>>
           ELSE /\ home' = [home EXCEPT ![f.dest_path] =
                               IF is_dir(source) THEN NoFile
                               ELSE IF is_dir(dest) THEN Dir(dest.members \cup {NameOfKey(f.repo_path)})
                               ELSE File("")]
                /\ applied' = Append(applied,
                       [repo_path |-> f.repo_path, dest_path |-> f.dest_path,
                        source |-> source, before |-> dest])
                /\ pc' = "copying"
    /\ UNCHANGED <<seqvars, batchvars, mainvars, tplvars, confvars, repo, custom, backup, backup_root,
                   preview, strategy, force, process_templates, idx, files_to_sync,
                   files_identical, files_skipped, files_synced, actions, result, stderr,
                   inputs_read, last_answer, views, templates_processed, rollback_left,
                   home0, backup_root0, backups_written>>

\* Lines 925-934, second call: copytree, or the writes of copy2
CopyFill ==
    /\ pc = "copying"
    /\ LET f == files_to_sync[idx]
           source == SourceOfKey(f.repo_path)
           dest == home[f.dest_path]
       IN  /\ home' = [home EXCEPT ![f.dest_path] =
                          IF is_dir(source) THEN copytree(source)
                          ELSE copy2(source, NameOfKey(f.repo_path), dest)]
           /\ files_synced' = Append(files_synced,
                  [repo_path |-> f.repo_path, dest_path |-> f.dest_path])
           /\ idx' = idx + 1
           /\ pc' = "apply"
    /\ UNCHANGED <<seqvars, batchvars, mainvars, tplvars, confvars, repo, custom, backup, backup_root,
                   preview, strategy, force, process_templates, files_to_sync,
                   files_identical, files_skipped, actions, result, stderr, inputs_read,
                   last_answer, views, templates_processed, rollback_left, home0,
                   backup_root0, backups_written, applied>>

InitApplySteps == InitSyncWith(RepoContents, "start") /\ force

NextApplySteps ==
    \/ Begin
    \/ Analyze
    \/ Summary
    \/ ApplyBackup
    \/ CopyClear
    \/ CopyFill
    \/ Finish

SpecApplySteps == InitApplySteps /\ [][NextApplySteps]_vars

\* ---------------------------------------------------------------------------
\* C22
\* ---------------------------------------------------------------------------
\* C22: every file transition of the apply phase is atomic: while an entry is
\* being copied its destination holds either its complete previous content
\* or its complete new content, never nothing, an empty file or a part
C22_AtomicTransitions ==
    pc = "copying" =>
        LET a == Last(applied)
            new == IF is_dir(a.source) THEN copytree(a.source)
                   ELSE copy2(a.source, NameOfKey(a.repo_path), a.before)
        IN  home[a.dest_path] \in {a.before, new}

----------------------------------------------------------------------------
(* process_synced_templates on any list of synced files *)

MaxSynced == 3         \* at most this many synced files handed to the batch

\* what a destination can hold once an entry has been copied to it
SyncedContents == {File("T"), File("A"), File("bin"), Dir({"o"})}

\* Lines 560-561
BatchBegin ==
    /\ pc = "batch"
    /\ IF files_synced = <<>>
       THEN Return(0) /\ UNCHANGED idx
       ELSE pc' = "scan" /\ idx' = 1 /\ UNCHANGED result
    /\ UNCHANGED <<confvars, mainvars, tplvars, seqvars, batchvars, repo, custom, home,
                   backup, backup_root, preview, strategy, force, process_templates,
                   files_to_sync, files_identical, files_skipped, files_synced, actions,
                   stderr, inputs_read, last_answer, views, templates_processed,
                   rollback_left, home0, backup_root0, backups_written, applied>>

\* Lines 573-599: one iteration of the scan; created tells whether the
\* .rollback_backup file could be written
Scan ==
    /\ pc = "scan"
    /\ idx <= Len(files_synced)
    /\ LET d == files_synced[idx].dest_path
           c == home[d]
       IN  IF is_file(c) /\ c.text \in TemplateTexts
           THEN /\ templates_found' = Append(templates_found, d)
                /\ \E created \in BOOLEAN :
                     IF created
                     THEN /\ rollback_files' = Append(rollback_files,
                                [dest_path |-> d, text |-> c.text, exists |-> TRUE])
                          /\ rollback_info' =
                                [k \in DOMAIN rollback_info \cup {d} |->
                                    IF k = d THEN Len(rollback_files) + 1
                                    ELSE rollback_info[k]]
                          /\ UNCHANGED stderr
                     ELSE /\ stderr' = stderr \cup {<<"no_rollback_backup", d>>}
                          /\ UNCHANGED <<rollback_files, rollback_info>>
           ELSE UNCHANGED <<templates_found, rollback_files, rollback_info, stderr>>
    /\ idx' = idx + 1
    /\ UNCHANGED <<confvars, mainvars, tplvars, seqvars, failed_templates, attempts,
                   reported, pc, result, repo, custom, home, backup, backup_root, preview,
                   strategy, force, process_templates, files_to_sync, files_identical,
                   files_skipped, files_synced, actions, inputs_read, last_answer, views,
                   templates_processed, rollback_left, home0, backup_root0,
                   backups_written, applied>>

\* Lines 601-607
ScanDone ==
    /\ pc = "scan"
    /\ idx > Len(files_synced)
    /\ IF templates_found = <<>>
       THEN Return(0) /\ UNCHANGED idx
       ELSE pc' = "process" /\ idx' = 1 /\ UNCHANGED result
    /\ UNCHANGED <<confvars, mainvars, tplvars, seqvars, batchvars, repo, custom, home,
                   backup, backup_root, preview, strategy, force, process_templates,
                   files_to_sync, files_identical, files_skipped, files_synced, actions,
                   stderr, inputs_read, last_answer, views, templates_processed,
                   rollback_left, home0, backup_root0, backups_written, applied>>

\* Lines 610-628: one iteration of the processing loop; ok is the value
\* process_template_file returns
Process ==
    /\ pc = "process"
    /\ idx <= Len(templates_found)
    /\ LET d == templates_found[idx]
       IN  \E ok \in BOOLEAN :
             /\ attempts' = Append(attempts, [dest_path |-> d, ok |-> ok])
             /\ IF ok
                THEN /\ home' = [home EXCEPT ![d] = File(Substituted(home[d].text))]
                     /\ templates_processed' = templates_processed + 1
                     /\ UNCHANGED failed_templates
                ELSE /\ failed_templates' = Append(failed_templates, d)
                     /\ UNCHANGED <<home, templates_processed>>
    /\ idx' = idx + 1
    /\ UNCHANGED <<confvars, mainvars, tplvars, seqvars, templates_found, rollback_info,
                   rollback_files, reported, pc, result, repo, custom, backup, backup_root,
                   preview, strategy, force, process_templates, files_to_sync,
                   files_identical, files_skipped, files_synced, actions, stderr,
                   inputs_read, last_answer, views, rollback_left, home0, backup_root0,
                   backups_written, applied>>

Failed(d) == \E i \in DOMAIN failed_templates : failed_templates[i] = d

\* Lines 630-662: the rollback paths of the failed templates are printed, the
\* rollback files of the others are removed, the count is returned
BatchEnd ==
    /\ pc = "process"
    /\ idx > Len(templates_found)
    /\ reported' = IF failed_templates # <<>> /\ DOMAIN rollback_info # {}
                   THEN {<<d, rollback_info[d]>> : d \in {k \in DOMAIN rollback_info : Failed(k)}}
                   ELSE {}
    /\ rollback_files' =
          [i \in DOMAIN rollback_files |->
              IF \E d \in DOMAIN rollback_info : rollback_info[d] = i /\ ~Failed(d)
              THEN [rollback_files[i] EXCEPT !.exists = FALSE]
              ELSE rollback_files[i]]
    /\ Return(templates_processed)
    /\ UNCHANGED <<confvars, mainvars, tplvars, seqvars, templates_found, rollback_info,
                   failed_templates, attempts, repo, custom, home, backup, backup_root,
                   preview, strategy, force, process_templates, idx, files_to_sync,
                   files_identical, files_skipped, files_synced, actions, stderr,
                   inputs_read, last_answer, views, templates_processed, rollback_left,
                   home0, backup_root0, backups_written, applied>>

InitBatch ==
    /\ ConfigIdle
    /\ MainIdle
    /\ TemplateIdle
    /\ BatchIdle
    /\ op_no = 1
    /\ repo = <<>>
    /\ custom = <<>>
    /\ home \in [HomeDests -> SyncedContents]
    /\ \E n \in 0..MaxSynced : \E ds \in [1..n -> HomeDests] :
          files_synced = [i \in 1..n |-> [repo_path |-> RepoPaths[i], dest_path |-> ds[i]]]
    /\ backup = <<>>
    /\ backup_root = TRUE
    /\ preview = FALSE
    /\ force = TRUE
    /\ strategy = "replace"
    /\ process_templates = TRUE
    /\ idx = 0
    /\ files_to_sync = <<>>
    /\ files_identical = <<>>
    /\ files_skipped = <<>>
    /\ actions = <<>>
    /\ inputs_read = 0
    /\ last_answer = <<"none", "">>
    /\ views = 0
    /\ templates_processed = 0
    /\ rollback_left = {}
    /\ home0 = home
    /\ backup_root0 = backup_root
    /\ backups_written = <<>>
    /\ applied = <<>>
    /\ stderr = {}
    /\ result = NoResult
    /\ pc = "batch"

NextBatch ==
    \/ BatchBegin
    \/ Scan
    \/ ScanDone
    \/ Process
    \/ BatchEnd

SpecBatch == InitBatch /\ [][NextBatch]_vars

\* ---------------------------------------------------------------------------
\* C23
\* ---------------------------------------------------------------------------
\* the synced files that held a placeholder when the batch began
PlaceholderFiles ==
    {d \in {files_synced[i].dest_path : i \in DOMAIN files_synced} :
        is_file(home0[d]) /\ home0[d].text \in TemplateTexts}
AttemptsOf(d) == Cardinality({i \in DOMAIN attempts : attempts[i].dest_path = d})
Succeeded == {d \in PlaceholderFiles : \E i \in DOMAIN attempts :
                 attempts[i].dest_path = d /\ attempts[i].ok}

\* C23: when the batch has ended, every applied file that held a placeholder
\* has been attempted exactly once, whether or not an earlier file failed,
\* and the count returned is the number of files whose substitution succeeded
C23_EachTemplateOnce ==
    (pc = "done" /\ files_synced # <<>>) =>
        /\ \A d \in PlaceholderFiles : AttemptsOf(d) = 1
        /\ \A i \in DOMAIN attempts : attempts[i].dest_path \in PlaceholderFiles
        /\ result = Cardinality(Succeeded)

\* ---------------------------------------------------------------------------
\* C24
\* ---------------------------------------------------------------------------
SnapshotsOf(d) == {i \in DOMAIN rollback_files :
                      rollback_files[i].dest_path = d /\ rollback_files[i].exists}

\* C24: every template file of the batch has a rollback snapshot of its
\* content before any substitution starts; when the batch has ended no
\* snapshot of a successfully substituted file exists, and every failed file
\* has a snapshot that equals its content before substitution and whose path
\* was reported
C24_RollbackSnapshots ==
    /\ pc = "process" =>
          \A i \in DOMAIN templates_found :
              \E k \in SnapshotsOf(templates_found[i]) :
                  rollback_files[k].text = home0[templates_found[i]].text
    /\ (pc = "done" /\ templates_found # <<>>) =>
          \A i \in DOMAIN templates_found :
              LET d == templates_found[i]
              IN  IF Failed(d)
                  THEN \E k \in SnapshotsOf(d) :
                          /\ rollback_files[k].text = home0[d].text
                          /\ <<d, k>> \in reported
                  ELSE SnapshotsOf(d) = {}

\* ---------------------------------------------------------------------------
\* C25
\* ---------------------------------------------------------------------------
\* the classification the claim gives a (source, destination) pair
IsNew(s, d) == ~exists(d)
IsDirectory(s, d) == exists(d) /\ (is_dir(s) \/ is_dir(d))
BothText(s, d) == exists(d) /\ ~is_dir(s) /\ ~is_dir(d) /\ readable(s) /\ readable(d)
IsBinary(s, d) == exists(d) /\ ~is_dir(s) /\ ~is_dir(d) /\ ~(readable(s) /\ readable(d))
ClassifiedAs(status, s, d) ==
    /\ status = "new" <=> IsNew(s, d)
    /\ status = "directory" <=> IsDirectory(s, d)
    /\ status = "identical" <=> (BothText(s, d) /\ s.text = d.text)
    /\ status = "modified" <=> (BothText(s, d) /\ s.text # d.text)
    /\ status = "binary" <=> IsBinary(s, d)
SameEntry(a, b) == a.repo_path = b.repo_path /\ a.dest_path = b.dest_path
\* what one step of sync_from_repo may do under the claim
ClassificationStep ==
    /\ pc = "analyze" => UNCHANGED <<repo, custom, home, backup>>
    /\ files_to_sync' # files_to_sync =>
          LET f == Last(files_to_sync')
          IN  /\ files_to_sync' = Append(files_to_sync, f)
              /\ f.status # "identical"
              /\ ClassifiedAs(f.status, SourceOfKey(f.repo_path), home[f.dest_path])
    /\ files_identical' # files_identical =>
          LET f == Last(files_identical')
          IN  /\ files_identical' = Append(files_identical, f)
              /\ ClassifiedAs("identical", SourceOfKey(f.repo_path), home[f.dest_path])
    /\ applied' # applied =>
          \A j \in DOMAIN files_identical : ~SameEntry(Last(applied'), files_identical[j])
    /\ files_synced' # files_synced =>
          \A j \in DOMAIN files_identical :
              ~SameEntry(Last(files_synced'), files_identical[j])
    /\ backups_written' # backups_written => Last(backups_written').status # "identical"

Answers == {"keep", "replace", "backup_replace"}
\* one step of the planning loop, as the claim describes it
PlanningStep ==
    (pc = "preview" /\ idx <= Len(files_to_sync) /\ strategy = "ask") =>
        LET f == files_to_sync[idx]
        IN  /\ f.status = "modified" =>
                /\ inputs_read' = inputs_read + 1
                /\ IF last_answer'[2] \in {"view", "invalid"}
                   THEN actions' = actions /\ idx' = idx
                   ELSE IF last_answer'[2] = "quit"
                   THEN actions' = actions
                   ELSE /\ last_answer'[2] \in Answers
                        /\ actions'[f.repo_path] = last_answer'[2]
            /\ f.status # "modified" =>
                /\ actions'[f.repo_path] = "replace"
                /\ inputs_read' = inputs_read
            \* the decision of this entry leaves the earlier entries' decisions alone
            /\ \A j \in 1..(idx - 1) :
                  actions'[files_to_sync[j].repo_path] = actions[files_to_sync[j].repo_path]
\* the plan of a run without prompts, and what a skip run does
NonInteractivePlan ==
    (pc \in {"apply", "copy"} /\ strategy # "ask") =>
        /\ \A j \in DOMAIN files_to_sync :
              ActionOf(files_to_sync[j].repo_path) =
                  (IF strategy = "skip" THEN "keep" ELSE "replace")
        /\ inputs_read = 0
        /\ strategy = "skip" => home = home0 /\ applied = <<>>

\* C26: with strategy ask, preview on and force off, a Modified entry is
\* planned as the operator answers (Keep, Replace or Backup-and-replace; View
\* and an invalid answer prompt again and record nothing), New, Binary and
\* Directory entries are planned Replace without a prompt, and the plan of an
\* entry stays as it was made; with strategy replace every entry is planned
\* Replace, with strategy skip every entry is planned Keep and no destination
\* changes
C26_PlannedActions ==
    [][PlanningStep /\ NonInteractivePlan /\ NonInteractivePlan']_vars

\* ---------------------------------------------------------------------------
\* C27
\* ---------------------------------------------------------------------------
\* the action planned for entry j, as the apply loop will look it up
PlannedFor(j) == ActionOf(files_to_sync[j].repo_path)
\* planning entry idx leaves what was planned for the entries before it
PlanKept ==
    (pc = "preview" /\ idx <= Len(files_to_sync)) =>
        \A j \in 1..(idx - 1) :
            actions[files_to_sync[j].repo_path] # "unset" =>
                actions'[files_to_sync[j].repo_path] = actions[files_to_sync[j].repo_path]
\* the apply loop does to entry idx what is planned for it
PlanCarriedOut ==
    (pc \in {"apply", "copy"} /\ idx <= Len(files_to_sync)) =>
        /\ actions' = actions
        /\ home' # home => PlannedFor(idx) \in {"replace", "backup_replace"}
        /\ files_skipped' # files_skipped => PlannedFor(idx) = "keep" /\ home' = home

\* C27: decisions are per destination: the action carried out on a
\* destination in the apply phase is the one planned for that destination,
\* a destination planned Keep is never overwritten, also when several
\* destinations share an overlay source name or a source key
C27_DecisionsPerDestination == [][PlanKept /\ PlanCarriedOut]_vars

----------------------------------------------------------------------------
(* sync_from_repo on mappings whose destinations may be the home directory *)
(* itself or lie outside it                                                *)

MaxSafetyEntries == 2  \* at most this many Regular lines in these mappings

InitDestSafetyAt(first_pc) ==
    /\ MainIdle
    /\ op_no = 1
    /\ BatchIdle
    /\ TemplateIdle
    /\ \E n \in 1..MaxSafetyEntries :
         /\ \E dests \in [1..n -> DestPaths] :
              file_map = [i \in 1..n |-> [repo_path |-> RepoPaths[i], dest_path |-> dests[i]]]
         /\ dotfiles = [i \in 1..n |-> RepoPaths[i]]
         /\ repo \in [{RepoPaths[i] : i \in 1..n} -> {NoFile, File("T")}]
    /\ \E S \in SUBSET {FirstDest, OutsideHome} : custom_map \in [S -> CustomNames]
    /\ custom \in [CustomNames -> CustomContents]
    /\ home \in {h \in [DestPaths -> {NoFile, File("A"), Dir({"o"})}] :
                    /\ h[HomeItself] = Dir({"o"})
                    /\ \A d \in DestPaths \ {HomeItself} : ~is_dir(h[d])
                    /\ \A d \in HomeDests \ {FirstDest} : h[d] = NoFile}
    /\ backup = [d \in HomeDests |-> NoFile]
    /\ backup_root = FALSE
    /\ preview \in BOOLEAN
    /\ force \in {f \in BOOLEAN : f => preview}
    /\ strategy \in {"ask", "replace", "skip"}
    /\ process_templates = TRUE
    /\ pc = first_pc
    /\ idx = 0
    /\ files_to_sync = <<>>
    /\ files_identical = <<>>
    /\ files_skipped = <<>>
    /\ files_synced = <<>>
    /\ actions = [k \in AllKeys |-> "unset"]
    /\ result = NoResult
    /\ stderr = {}
    /\ inputs_read = 0
    /\ last_answer = <<"none", "">>
    /\ views = 0
    /\ templates_processed = 0
    /\ rollback_left = {}
    /\ home0 = home
    /\ backup_root0 = backup_root
    /\ backups_written = <<>>
    /\ applied = <<>>

InitDestSafety == InitDestSafetyAt("start")

SpecDestSafety == InitDestSafety /\ [][NextSync]_vars

\* ---------------------------------------------------------------------------
\* C28
\* ---------------------------------------------------------------------------
UnsafeDest(d) == d \notin HomeDests
UnsafeRegularEntry ==
    \E i \in DOMAIN file_map :
        exists(EffectiveSource(file_map[i])) /\ UnsafeDest(file_map[i].dest_path)
\* an Overlay entry whose destination has no Regular entry
UnsafeOverlayOnlyEntry ==
    \E d \in DOMAIN custom_map :
        /\ UnsafeDest(d)
        /\ exists(custom[custom_map[d]])
        /\ \A i \in DOMAIN file_map : file_map[i].dest_path # d
NothingTouched ==
    /\ home = home0
    /\ \A d \in DOMAIN backup : backup[d] = NoFile
    /\ applied = <<>>
    /\ backups_written = <<>>
RefusedWhen(unsafe) ==
    /\ \A d \in DestPaths \ HomeDests : home[d] = home0[d]
    /\ unsafe =>
          /\ pc \in {"start", "analyze", "done"}
          /\ NothingTouched
          /\ pc = "done" => result = 1

\* C28 (as stated): no destination outside the home directory ever changes,
\* and when any entry with an existing source, Overlay-only entries
\* included, has the home directory or a path outside it as destination,
\* the run ends with 1 in the classification pass with nothing touched
C28_AnyUnsafeEntryRefused == RefusedWhen(UnsafeRegularEntry \/ UnsafeOverlayOnlyEntry)

\* C28 (amended): no destination outside the home directory ever changes,
\* and when a Regular entry whose effective source exists has the home
\* directory or a path outside it as destination, the run ends with 1 in
\* the classification pass with nothing touched
C28_UnsafeRegularEntryRefused == RefusedWhen(UnsafeRegularEntry)

\* C28 witness: a run was refused because of a destination outside the home
\* directory after an earlier entry with a safe destination was classified
C28_Witness ==
    /\ pc = "done"
    /\ result = 1
    /\ UnsafeRegularEntry
    /\ \E x \in stderr : x[1] = "outside_home"
    /\ Len(files_to_sync) + Len(files_identical) >= 1

----------------------------------------------------------------------------
(* sync_to_repo on mappings whose repoPath may be absolute *)

\* config.repo_dir / "/out" == Path("/out"): a path that is not below repo_dir
OutsideRepo == "/out"
CollectRepoPaths == {"r1", "r2", OutsideRepo}

InitCollect ==
    /\ MainIdle
    /\ op_no = 1
    /\ BatchIdle
    /\ TemplateIdle
    /\ \E n \in 1..MaxEntries :
         /\ \E rs \in [1..n -> CollectRepoPaths], dests \in [1..n -> HomeDests] :
              /\ \A i, j \in 1..n : i # j => rs[i] # rs[j]
              /\ file_map = [i \in 1..n |-> [repo_path |-> rs[i], dest_path |-> dests[i]]]
              /\ dotfiles = [i \in 1..n |-> rs[i]]
    /\ repo \in [CollectRepoPaths -> {NoFile, File("T"), Dir({"o"})}]
    /\ \E S \in SUBSET {FirstDest} : custom_map \in [S -> CustomNames]
    /\ custom \in [CustomNames -> CustomContents]
    /\ home \in {h \in [HomeDests -> HomeContents] :
                    \A d \in HomeDests \ {FirstDest} : h[d] \in SecondHomeContents}
    /\ backup = EmptyBackup
    /\ backup_root \in BOOLEAN
    /\ preview = TRUE
    /\ force = FALSE
    /\ strategy = "ask"
    /\ process_templates = TRUE
    /\ pc = "sync_to_repo"
    /\ idx = 0
    /\ files_to_sync = <<>>
    /\ files_identical = <<>>
    /\ files_skipped = <<>>
    /\ files_synced = <<>>
    /\ actions = [k \in AllKeys |-> "unset"]
    /\ result = NoResult
    /\ stderr = {}
    /\ inputs_read = 0
    /\ last_answer = <<"none", "">>
    /\ views = 0
    /\ templates_processed = 0
    /\ rollback_left = {}
    /\ home0 = home
    /\ backup_root0 = backup_root
    /\ backups_written = <<>>
    /\ applied = <<>>

NextCollect ==
    \/ BeginCollect
    \/ Collect
    \/ CollectDone

SpecCollect == InitCollect /\ [][NextCollect]_vars

\* ---------------------------------------------------------------------------
\* C29
\* ---------------------------------------------------------------------------
UnderRepo(p) == p # OutsideRepo
OnlyRepoChanges ==
    /\ \A p \in DOMAIN repo : ~UnderRepo(p) => repo'[p] = repo[p]
    /\ home' = home
    /\ custom' = custom
    /\ backup' = backup
    /\ backup_root' = backup_root
MissingSkipped ==
    (pc = "collect" /\ idx <= Len(file_map) /\ ~exists(home[file_map[idx].dest_path]))
        => (repo' = repo /\ idx' = idx + 1 /\ pc' = pc)

\* C29: every step of sync-out changes paths under the repository directory
\* only, whatever repoPath the mapping holds, and leaves the home directory,
\* the overlay directory and the backup root as they are; an entry whose
\* system file is missing is passed over with the repository unchanged
C29_OnlyRepositoryWritten == [][OnlyRepoChanges /\ MissingSkipped]_vars

----------------------------------------------------------------------------
(* list_files, and the three operations on mappings with Overlay entries   *)
(* whose destination has no Regular entry                                  *)

\* Lines 987-997: the line printed for one entry of file_map
MappingLine(e) ==
    IF e.dest_path \in DOMAIN custom_map
    THEN IF exists(custom[custom_map[e.dest_path]])
         THEN <<"mapping", e.repo_path, e.dest_path, "CUSTOM", custom_map[e.dest_path]>>
         ELSE <<"mapping", e.repo_path, e.dest_path, "CUSTOM NOT FOUND", custom_map[e.dest_path]>>
    ELSE <<"mapping", e.repo_path, e.dest_path, "", "">>

\* lines 999-1002 left out: custom-only entries are not listed
list_files_NoCustomOnly ==
    {<<"total_files", Len(dotfiles)>>}
    \cup (IF DOMAIN custom_map # {} THEN {<<"custom_overlays", Cardinality(DOMAIN custom_map)>>}
          ELSE {})
    \cup {MappingLine(file_map[i]) : i \in DOMAIN file_map}
\* Lines 980-1002: the lines list_files prints
list_files ==
    {<<"total_files", Len(dotfiles)>>}
    \cup (IF DOMAIN custom_map # {} THEN {<<"custom_overlays", Cardinality(DOMAIN custom_map)>>}
          ELSE {})
    \cup {MappingLine(file_map[i]) : i \in DOMAIN file_map}
    \cup {<<"custom_only", custom_map[d], d>> :
             d \in {x \in DOMAIN custom_map : \A i \in DOMAIN file_map : file_map[i].dest_path # x}}

\* Lines 978-1004
ListFiles ==
    /\ pc = "list"
    /\ stdout' = list_files
    /\ Return(0)
    /\ UNCHANGED <<confvars, syncvars, tplvars, seqvars, batchvars, line_num, raw_line,
                   errors, op_run, fatal_at>>

InitOverlayOnly == \E first_pc \in {"start", "sync_to_repo", "list"} : InitDestSafetyAt(first_pc)

NextOverlayOnly ==
    \/ NextSync
    \/ BeginCollect
    \/ Collect
    \/ CollectDone
    \/ ListFiles

SpecOverlayOnly == InitOverlayOnly /\ [][NextOverlayOnly]_vars

\* ---------------------------------------------------------------------------
\* C30
\* ---------------------------------------------------------------------------
OverlayOnly(d) ==
    /\ d \in DOMAIN custom_map
    /\ \A i \in DOMAIN file_map : file_map[i].dest_path # d
Concerns(seq, d) == \E j \in DOMAIN seq : seq[j].dest_path = d
LinesAbout(d) ==
    {l \in stdout : (l[1] = "mapping" /\ l[3] = d) \/ (l[1] = "custom_only" /\ l[3] = d)}

\* C30: a destination with an Overlay entry and no Regular entry keeps its
\* content and gets no backup in sync-in, is never classified, planned,
\* copied or scanned for templates by sync-in, is not the system file of any
\* step of sync-out, and is listed by exactly one line, marked custom-only
C30_OverlayOnlyUntouched ==
    \A d \in DOMAIN custom_map :
        OverlayOnly(d) =>
            /\ home[d] = home0[d]
            /\ d \in DOMAIN backup => backup[d] = NoFile
            /\ ~Concerns(files_to_sync, d)
            /\ ~Concerns(files_identical, d)
            /\ ~Concerns(backups_written, d)
            /\ ~Concerns(applied, d)
            /\ ~Concerns(files_synced, d)
            /\ (pc = "collect" /\ idx <= Len(file_map)) => file_map[idx].dest_path # d
            /\ stdout # {} => LinesAbout(d) = {<<"custom_only", custom_map[d], d>>}

\* C30 witness: sync-in has replaced a destination while another destination
\* has only an Overlay entry, whose overlay source exists
C30_Witness ==
    /\ pc = "done"
    /\ result = 0
    /\ applied # <<>>
    /\ \E d \in DOMAIN custom_map :
          /\ OverlayOnly(d)
          /\ d \in HomeDests
          /\ exists(custom[custom_map[d]])
          /\ ~exists(home[d])

====
